---- MODULE Spec2Model ----
(***************************************************************************)
(* Universe Builder backend: the relational store (projects, groups,       *)
(* cards, worldview groups/cards, scenarios, plot points, manuscript       *)
(* blocks), the HTTP handlers that mutate it, the per-project password     *)
(* guard and the ordering columns the handlers maintain.                   *)
(*                                                                         *)
(* Tables are sets of rows (records).  Row ids are the strings the handlers *)
(* build from int(time.time() * 1000); the timestamp is issued by a clock  *)
(* that moves forward on every request that reads the time.                *)
(* One request is one action: the handler runs on its own session and its  *)
(* commit makes the changes visible.  The variable last holds the request  *)
(* that was served last and the response it got.                           *)
(*                                                                         *)
(* The engine is PostgreSQL when DATABASE_URL names it and SQLite          *)
(* otherwise (database.py:11-22).  PostgreSQL enforces the foreign keys of *)
(* the schema, SQLite as it is opened here does not: foreign_keys is TRUE  *)
(* on the first and FALSE on the second, and never changes.                *)
(*                                                                         *)
(* Requests run on threads of the server's pool.  Where the interleaving   *)
(* of two requests is studied a handler is two actions, its read and its   *)
(* commit, and in_flight holds the requests between the two.               *)
(***************************************************************************)
EXTENDS Integers, Sequences, FiniteSets, TLC

VARIABLES projects, groups, cards, worldviews, worldview_groups,
          worldview_cards, relationships, relationship_phases, scenarios,
          plot_points, manuscript_blocks, foreign_keys, in_flight, clock, last

vars == <<projects, groups, cards, worldviews, worldview_groups,
          worldview_cards, relationships, relationship_phases, scenarios,
          plot_points, manuscript_blocks, foreign_keys, in_flight, clock, last>>

\* Number of timestamps the clock issues in a run.
MaxClock == 4
\* Most projects the store holds at a time.
MaxProjects == 2
\* Longest id list of a reorder request.
MaxOrderLen == 3

\* Python None, for optional strings (a header that is not sent, a NULL column).
None == "None"

\* Passwords a client may type; "" is the empty string.
Passwords == {"", "pw"}
\* Values of the optional X-Project-Password header.
Headers == Passwords \cup {None}

\* The test "s is not None", which takes "" for a value.
NotNone(s) == s # None

\* Python truthiness of an optional string: None and "" are falsy.
Truthy(s) == s # None /\ s # ""

\* pwd_context.hash: a bcrypt hash string of the password (never empty).
Hash(password) == "$2b$" \o password

\* pwd_context.verify(password, hashed).
Verify(password, hashed) == hashed = Hash(password)

\* Name of the group every project is created with ('미분류').
UNCATEGORIZED == "uncategorized"
\* Title of the scenario every project is created with ('메인 시나리오').
MAIN_SCENARIO == "main scenario"

\* json.dumps({"logline": "", "genre": "", "rules": []}) as stored in Worldview.content.
DefaultWorldviewContent == [logline |-> "", genre |-> "", rules |-> <<>>]

\* A value of a JSON column (goal, personality, abilities, quote of a card,
\* which the handlers treat alike and the model keeps as the one field goal)
\* or of a text column that holds an encoded list (themes of a scenario).
\* The column holds what was assigned: a list, or a string when the handler
\* assigned the text json.dumps made of the list, or NULL.  items is the list
\* itself or the list the text encodes.
JsonList(items) == [json |-> "list", items |-> items]
JsonString(items) == [json |-> "str", items |-> items]
JsonNull == [json |-> "null", items |-> <<>>]

\* json.dumps(list): the text of the list, a string.
Dumps(items) == JsonString(items)

\* The ids of the rows of a table.
Ids(table) == {r.id : r \in table}

\* Ids a client may put in a URL or a body: those of the table's rows, and one
\* that names no row.
IdInputs(table) == Ids(table) \cup {"missing"}

\* f"{prefix}{int(time.time() * 1000)}" at time timestamp.
NewId(prefix, timestamp) == prefix \o ToString(timestamp)

\* The record kept of the request served last: the handler, the project and
\* the password header of the request, the status of the response and, when
\* the request was served (status below 400), the ids it named or created.
\* An error response carries its status only.
Response(op, status, project_id, password, id, ids) ==
    [op |-> op, status |-> status, project_id |-> project_id,
     password |-> password,
     id |-> IF status >= 400 THEN "" ELSE id,
     ids |-> IF status >= 400 THEN <<>> ELSE ids]

Init ==
    /\ projects = {}
    /\ groups = {}
    /\ cards = {}
    /\ worldviews = {}
    /\ worldview_groups = {}
    /\ worldview_cards = {}
    /\ relationships = {}
    /\ relationship_phases = {}
    /\ scenarios = {}
    /\ plot_points = {}
    /\ manuscript_blocks = {}
    /\ foreign_keys \in BOOLEAN
    /\ in_flight = {}
    /\ clock = 0
    /\ last = Response("start", 200, "", None, "", <<>>)

(***************************************************************************)
(* Access guard                                                            *)
(***************************************************************************)

\* A guard that only asks for some password on a protected project and
\* never verifies it.
guard_without_verify(project_id, x_project_password) ==
    LET found == {p \in projects : p.id = project_id}
    IN  IF found = {} THEN 404
        ELSE LET project == CHOOSE p \in found : TRUE
             IN  IF Truthy(project.hashed_password) /\ ~Truthy(x_project_password)
                 THEN 403
                 ELSE 200

\* get_project_if_accessible: the status it raises (404, 403) or 200 when it
\* returns the project.  It only queries.
get_project_if_accessible(project_id, x_project_password) ==
    LET found == {p \in projects : p.id = project_id}
    IN  IF found = {} THEN 404
        ELSE LET project == CHOOSE p \in found : TRUE
             IN  IF Truthy(project.hashed_password)
                    /\ (~Truthy(x_project_password)
                        \/ ~Verify(x_project_password, project.hashed_password))
                 THEN 403
                 ELSE 200

(***************************************************************************)
(* Projects                                                                *)
(***************************************************************************)

\* POST /projects
create_project(password) ==
    /\ clock < MaxClock
    /\ Cardinality(projects) < MaxProjects
    /\ LET timestamp == clock + 1
           new_project_id == NewId("project-", timestamp)
           hashed_password == IF Truthy(password) THEN Hash(password) ELSE None
       IN  /\ clock' = timestamp
           /\ projects' = projects \cup
                  {[id |-> new_project_id, hashed_password |-> hashed_password]}
           /\ groups' = groups \cup
                  {[id |-> NewId("group-uncategorized-", timestamp),
                    project_id |-> new_project_id, name |-> UNCATEGORIZED]}
           /\ worldviews' = worldviews \cup
                  {[project_id |-> new_project_id, content |-> DefaultWorldviewContent]}
           /\ scenarios' = scenarios \cup
                  {[id |-> NewId("scen-", timestamp), project_id |-> new_project_id,
                    title |-> MAIN_SCENARIO, summary |-> None, themes |-> JsonNull]}
           /\ last' = Response("create_project", 200, new_project_id, password,
                                new_project_id, <<>>)
    /\ UNCHANGED <<cards, worldview_groups, worldview_cards, plot_points,
                   manuscript_blocks,
                   relationships, relationship_phases, foreign_keys, in_flight>>

(***************************************************************************)
(* Character cards (routers/generators.py): these handlers take no         *)
(* X-Project-Password header and do not call the guard.                    *)
(***************************************************************************)

\* Bodies of add_card_to_project requests (CharacterCard).
CardInputs ==
    {[name |-> "n", description |-> "d", goal |-> g] : g \in {<<>>, <<"g1">>, <<"g1", "g2">>}}

\* The body the requests of the specifications that do not look at card
\* fields carry.
PlainCard == [name |-> "n", description |-> "d", goal |-> <<>>]

\* POST /projects/{project_id}/groups/{group_id}/cards
add_card_to_project(project_id, group_id, card, x_project_password) ==
    LET group == {g \in groups : g.id = group_id /\ g.project_id = project_id}
        new_card_id == NewId("card-", clock + 1)
        card_count == Cardinality({c \in cards : c.group_id = group_id})
    IN  IF group = {}
        THEN /\ last' = Response("add_card_to_project", 404, project_id,
                                 x_project_password, group_id, <<>>)
             /\ UNCHANGED <<projects, groups, cards, worldviews, worldview_groups,
                            worldview_cards, scenarios, plot_points,
                            manuscript_blocks, clock,
                            relationships, relationship_phases, foreign_keys, in_flight>>
        ELSE /\ clock < MaxClock
             /\ clock' = clock + 1
             /\ cards' = cards \cup
                    {[id |-> new_card_id,
                      group_id |-> group_id,
                      name |-> card.name,
                      description |-> card.description,
                      goal |-> IF card.goal # <<>> THEN Dumps(card.goal) ELSE Dumps(<<>>),
                      ordering |-> card_count]}
             /\ last' = Response("add_card_to_project", 200, project_id,
                                 x_project_password, new_card_id, <<>>)
             /\ UNCHANGED <<projects, groups, worldviews, worldview_groups,
                            worldview_cards, scenarios, plot_points, manuscript_blocks,
                            relationships, relationship_phases, foreign_keys, in_flight>>

\* Relationships that would be left pointing at a card of deleted_cards.
Dangling(deleted_cards, deleted_relationships) ==
    {r \in relationships \ deleted_relationships :
        r.source_character_id \in Ids(deleted_cards)
           \/ r.target_character_id \in Ids(deleted_cards)}

\* DELETE /projects/{project_id}/groups/{group_id}/cards/{card_id}
delete_card_from_project(project_id, group_id, card_id, x_project_password) ==
    LET card_to_delete ==
            {c \in cards : /\ c.id = card_id
                           /\ c.group_id = group_id
                           /\ \E g \in groups : g.id = c.group_id /\ g.project_id = project_id}
    IN  /\ IF card_to_delete = {}
           THEN /\ last' = Response("delete_card_from_project", 404, project_id,
                                    x_project_password, card_id, <<>>)
                /\ UNCHANGED cards
           ELSE IF foreign_keys /\ Dangling(card_to_delete, {}) # {}
           THEN /\ last' = Response("delete_card_from_project", 500, project_id,
                                    x_project_password, card_id, <<>>)
                /\ UNCHANGED cards
           ELSE /\ cards' = cards \ card_to_delete
                /\ last' = Response("delete_card_from_project", 200, project_id,
                                    x_project_password, card_id, <<>>)
        /\ UNCHANGED <<projects, groups, worldviews, worldview_groups, worldview_cards,
                       scenarios, plot_points, manuscript_blocks, clock,
                       relationships, relationship_phases, foreign_keys, in_flight>>

\* PUT /projects/{project_id}/cards/{card_id}/move
move_card(project_id, card_id, target_group_id, x_project_password) ==
    LET card == {c \in cards : /\ c.id = card_id
                               /\ \E g \in groups : g.id = c.group_id /\ g.project_id = project_id}
    IN  /\ IF card = {}
           THEN /\ last' = Response("move_card", 404, project_id, x_project_password,
                                    card_id, <<target_group_id>>)
                /\ UNCHANGED cards
           ELSE /\ cards' = {IF c \in card THEN [c EXCEPT !.group_id = target_group_id] ELSE c
                             : c \in cards}
                /\ last' = Response("move_card", 200, project_id, x_project_password,
                                    card_id, <<target_group_id>>)
        /\ UNCHANGED <<projects, groups, worldviews, worldview_groups, worldview_cards,
                       scenarios, plot_points, manuscript_blocks, clock,
                       relationships, relationship_phases, foreign_keys, in_flight>>

\* A reorder that numbers the listed rows from 1.
RECURSIVE ApplyOrderFromOne(_, _, _, _)
ApplyOrderFromOne(table, ids, index, matching) ==
    IF index >= Len(ids) THEN table
    ELSE ApplyOrderFromOne({IF r.id = ids[index + 1] /\ r.id \in matching
                            THEN [r EXCEPT !.ordering = index + 1] ELSE r : r \in table},
                           ids, index + 1, matching)

\* The loop "for index, id in enumerate(ids): UPDATE ... SET ordering = index
\* WHERE id = :id AND <scope>" of the three reorder handlers, applied to a table;
\* matching is the set of ids of the rows that satisfy <scope>.  Each UPDATE runs
\* in turn, so a later position of the same id overwrites an earlier one.
RECURSIVE ApplyOrder(_, _, _, _)
ApplyOrder(table, ids, index, matching) ==
    IF index >= Len(ids) THEN table
    ELSE ApplyOrder({IF r.id = ids[index + 1] /\ r.id \in matching
                     THEN [r EXCEPT !.ordering = index] ELSE r : r \in table},
                    ids, index + 1, matching)

\* Rows the WHERE clause of update_card_order's UPDATE can match:
\* CardModel.group_id == group_id.
CardOrderScope(group_id) == {c.id : c \in {r \in cards : r.group_id = group_id}}

\* PUT /projects/{project_id}/groups/{group_id}/cards/order
update_card_order(project_id, group_id, card_ids, x_project_password) ==
    LET group == {g \in groups : g.id = group_id /\ g.project_id = project_id}
    IN  /\ IF group = {}
           THEN /\ last' = Response("update_card_order", 404, project_id,
                                    x_project_password, group_id, card_ids)
                /\ UNCHANGED cards
           ELSE /\ cards' = ApplyOrder(cards, card_ids, 0, CardOrderScope(group_id))
                /\ last' = Response("update_card_order", 200, project_id,
                                    x_project_password, group_id, card_ids)
        /\ UNCHANGED <<projects, groups, worldviews, worldview_groups, worldview_cards,
                       scenarios, plot_points, manuscript_blocks, clock,
                       relationships, relationship_phases, foreign_keys, in_flight>>

\* Id lists of a reorder request: up to MaxOrderLen ids drawn from ids, each id
\* at most once (the client sends the ids of the elements it shows, in order).
IdLists(ids) ==
    {l \in UNION {[1..n -> ids] : n \in 0..MaxOrderLen} :
        \A i, j \in 1..Len(l) : l[i] = l[j] => i = j}

(***************************************************************************)
(* Specification of the character-card endpoints.                          *)
(***************************************************************************)

NextCards ==
    \/ create_project(None)
    \/ \E p \in IdInputs(projects), g \in IdInputs(groups) :
           add_card_to_project(p, g, PlainCard, None)
    \/ \E p \in IdInputs(projects), g \in IdInputs(groups), c \in IdInputs(cards) :
           delete_card_from_project(p, g, c, None)
    \/ \E p \in IdInputs(projects), c \in IdInputs(cards), g \in Ids(groups) :
           move_card(p, c, g, None)
    \/ \E p \in IdInputs(projects), g \in IdInputs(groups), ids \in IdLists(Ids(cards)) :
           update_card_order(p, g, ids, None)

SpecCards == Init /\ [][NextCards]_vars

(***************************************************************************)
(* Plot points (routers/scenarios.py): every handler depends on the guard. *)
(***************************************************************************)

\* The largest element of a non-empty set of integers (SQL max()).
Max(S) == CHOOSE m \in S : \A n \in S : n <= m

\* Orders in which "ORDER BY ordering" can return rows: every assignment of the
\* positions 0..N-1 to the rows' ids that follows the ordering column; rows with
\* equal ordering come in an order the database chooses.
Rankings(rows) ==
    {f \in [Ids(rows) -> 0..(Cardinality(rows) - 1)] :
        /\ \A r, t \in rows : f[r.id] = f[t.id] => r = t
        /\ \A r, t \in rows : r.ordering < t.ordering => f[r.id] < f[t.id]}

\* A renumbering that leaves every ordering as it is.
KeepOrdering(rows, rank) == rows

\* "for index, row in enumerate(rows): row.ordering = index" with rows in the
\* order rank.
Renumber(rows, rank) == {[r EXCEPT !.ordering = rank[r.id]] : r \in rows}

\* ordering of a new plot point: (max_ordering or -1) + 1, where max_ordering is
\* NULL for a scenario without plot points.
NewPlotOrdering(scenario_id) ==
    LET orderings == {pp.ordering : pp \in {r \in plot_points : r.scenario_id = scenario_id}}
        max_or_minus_one == IF orderings = {} \/ Max(orderings) = 0
                            THEN -1 ELSE Max(orderings)
    IN  max_or_minus_one + 1

\* POST /projects/{project_id}/scenarios/{scenario_id}/plot_points
create_plot_point(project_id, scenario_id, plot_point_data, x_project_password) ==
    LET access == get_project_if_accessible(project_id, x_project_password)
        scenario == {sc \in scenarios : sc.id = scenario_id /\ sc.project_id = project_id}
        Reply(status, id) == Response("create_plot_point", status, project_id,
                                      x_project_password, id, <<>>)
    IN  IF access # 200 \/ scenario = {}
        THEN /\ last' = Reply(IF access # 200 THEN access ELSE 404, scenario_id)
             /\ UNCHANGED <<projects, groups, cards, worldviews, worldview_groups,
                            worldview_cards, scenarios, plot_points,
                            manuscript_blocks, clock,
                            relationships, relationship_phases, foreign_keys, in_flight>>
        ELSE /\ clock < MaxClock
             /\ clock' = clock + 1
             /\ plot_points' = plot_points \cup
                    {[id |-> NewId("plot-", clock + 1), scenario_id |-> scenario_id,
                      title |-> plot_point_data.title,
                      content |-> plot_point_data.content,
                      scene_draft |-> None,
                      ordering |-> NewPlotOrdering(scenario_id)]}
             /\ last' = Reply(200, NewId("plot-", clock + 1))
             /\ UNCHANGED <<projects, groups, cards, worldviews, worldview_groups,
                            worldview_cards, scenarios, manuscript_blocks,
                            relationships, relationship_phases, foreign_keys, in_flight>>

\* DELETE /projects/{project_id}/scenarios/{scenario_id}/plot_points
delete_all_plot_points(project_id, scenario_id, x_project_password) ==
    LET access == get_project_if_accessible(project_id, x_project_password)
        scenario == {sc \in scenarios : sc.id = scenario_id /\ sc.project_id = project_id}
        Reply(status) == Response("delete_all_plot_points", status, project_id,
                                  x_project_password, scenario_id, <<>>)
    IN  /\ IF access # 200 \/ scenario = {}
           THEN /\ last' = Reply(IF access # 200 THEN access ELSE 404)
                /\ UNCHANGED plot_points
           ELSE /\ plot_points' = {pp \in plot_points : pp.scenario_id # scenario_id}
                /\ last' = Reply(200)
        /\ UNCHANGED <<projects, groups, cards, worldviews, worldview_groups,
                       worldview_cards, scenarios, manuscript_blocks, clock,
                       relationships, relationship_phases, foreign_keys, in_flight>>

\* DELETE /projects/{project_id}/scenarios/plot_points/{plot_point_id}
delete_plot_point(project_id, plot_point_id, x_project_password) ==
    LET access == get_project_if_accessible(project_id, x_project_password)
        plot_point ==
            {pp \in plot_points :
                /\ pp.id = plot_point_id
                /\ \E sc \in scenarios : sc.id = pp.scenario_id /\ sc.project_id = project_id}
        Reply(status) == Response("delete_plot_point", status, project_id,
                                  x_project_password, plot_point_id, <<>>)
    IN  /\ IF access # 200 \/ plot_point = {}
           THEN /\ last' = Reply(IF access # 200 THEN access ELSE 404)
                /\ UNCHANGED plot_points
           ELSE LET scenario_id == (CHOOSE pp \in plot_point : TRUE).scenario_id
                    flushed == plot_points \ plot_point
                    remaining_plot_points == {pp \in flushed : pp.scenario_id = scenario_id}
                IN  \E rank \in Rankings(remaining_plot_points) :
                        /\ plot_points' = (flushed \ remaining_plot_points)
                                          \cup Renumber(remaining_plot_points, rank)
                        /\ last' = Reply(200)
        /\ UNCHANGED <<projects, groups, cards, worldviews, worldview_groups,
                       worldview_cards, scenarios, manuscript_blocks, clock,
                       relationships, relationship_phases, foreign_keys, in_flight>>

\* Bodies of create_plot_point requests (PlotPointBase).
PlotPointInputs == {[title |-> "t", content |-> c] : c \in {None, "a b"}}

NextPlots ==
    \/ create_project(None)
    \/ \E p \in IdInputs(projects), sc \in IdInputs(scenarios), d \in PlotPointInputs :
           create_plot_point(p, sc, d, None)
    \/ \E p \in IdInputs(projects), pp \in IdInputs(plot_points) :
           delete_plot_point(p, pp, None)
    \/ \E p \in IdInputs(projects), sc \in IdInputs(scenarios) :
           delete_all_plot_points(p, sc, None)

SpecPlots == Init /\ [][NextPlots]_vars

(***************************************************************************)
(* Text helpers                                                            *)
(***************************************************************************)

\* Characters str.strip() removes and str.split() separates on.
IsSpace(ch) == ch \in {" ", "\n", "\t"}

\* str.lstrip()
RECURSIVE LStrip(_)
LStrip(text) ==
    IF Len(text) > 0 /\ IsSpace(SubSeq(text, 1, 1))
    THEN LStrip(SubSeq(text, 2, Len(text)))
    ELSE text

\* str.rstrip()
RECURSIVE RStrip(_)
RStrip(text) ==
    IF Len(text) > 0 /\ IsSpace(SubSeq(text, Len(text), Len(text)))
    THEN RStrip(SubSeq(text, 1, Len(text) - 1))
    ELSE text

\* str.strip()
Strip(text) == RStrip(LStrip(text))

\* len(text.split()): the number of maximal runs of non-space characters.
WordCount(text) ==
    Cardinality({i \in 1..Len(text) :
                    /\ ~IsSpace(SubSeq(text, i, i))
                    /\ (i = 1 \/ IsSpace(SubSeq(text, i - 1, i - 1)))})

\* Python "a or b" on optional strings.
Or(a, b) == IF Truthy(a) THEN a ELSE b

(***************************************************************************)
(* AI plot draft (routers/scenarios.py)                                    *)
(***************************************************************************)

\* Most plot points the model's AI answers hold.
MaxPlots == 3

\* The i-th plot point of an AI answer; every second one has a two-word content.
AIPlot(i, title) ==
    [title |-> title,
     content |-> IF i % 2 = 1 THEN "p" \o ToString(i) ELSE "p" \o ToString(i) \o " q"]

\* What the provider call of generate_scenario_draft_with_ai can end in: an
\* exception, a response without parts (blocked by the safety filter or empty),
\* text that is not JSON, or JSON whose "plot_points" is a list (possibly empty;
\* a plot point may lack its title).
AIResults ==
    {[kind |-> k, plot_points |-> <<>>] :
        k \in {"unavailable", "blocked", "empty", "malformed", "json"}}
    \cup {[kind |-> "json", plot_points |-> [i \in 1..n |-> AIPlot(i, "t")]] : n \in 1..MaxPlots}
    \cup {[kind |-> "json",
           plot_points |-> [i \in 1..n |-> AIPlot(i, IF i = n THEN None ELSE "t")]] :
          n \in 1..MaxPlots}

\* POST /projects/{project_id}/scenarios/{scenario_id}/generate-draft
generate_scenario_draft_with_ai(project_id, scenario_id, ai, x_project_password) ==
    LET access == get_project_if_accessible(project_id, x_project_password)
        scenario == {sc \in scenarios : sc.id = scenario_id /\ sc.project_id = project_id}
        Reply(status) == Response("generate_scenario_draft_with_ai", status, project_id,
                                  x_project_password, scenario_id, <<>>)
        timestamp == clock + 1
        new_plot_points ==
            {[id |-> NewId("plot-", timestamp) \o "_" \o ToString(i - 1),
              scenario_id |-> scenario_id,
              title |-> ai.plot_points[i].title,
              content |-> ai.plot_points[i].content,
              scene_draft |-> None,
              ordering |-> i - 1] : i \in 1..Len(ai.plot_points)}
        deleted == {pp \in plot_points : pp.scenario_id # scenario_id}
        early == IF access # 200 THEN access
                 ELSE IF scenario = {} THEN 404
                 ELSE IF ai.kind \in {"unavailable", "empty", "malformed"} THEN 500
                 ELSE IF ai.kind = "blocked" \/ Len(ai.plot_points) = 0 THEN 400
                 ELSE 200
    IN  IF early # 200
        THEN /\ last' = Reply(early)
             /\ UNCHANGED <<projects, groups, cards, worldviews, worldview_groups,
                            worldview_cards, scenarios, plot_points,
                            manuscript_blocks, clock,
                            relationships, relationship_phases, foreign_keys, in_flight>>
        ELSE /\ clock < MaxClock
             /\ clock' = timestamp
             \* The DELETE is committed on its own; the INSERTs of the second
             \* commit fail as a whole when a title is NULL (nullable=False) and
             \* are rolled back.
             /\ IF \E pp \in new_plot_points : pp.title = None
                THEN /\ plot_points' = deleted
                     /\ last' = Reply(500)
                ELSE /\ plot_points' = deleted \cup new_plot_points
                     /\ last' = Reply(200)
             /\ UNCHANGED <<projects, groups, cards, worldviews, worldview_groups,
                            worldview_cards, scenarios, manuscript_blocks,
                            relationships, relationship_phases, foreign_keys, in_flight>>

(***************************************************************************)
(* Manuscript blocks (routers/manuscript.py)                               *)
(***************************************************************************)

BlocksOfProject(project_id) == {b \in manuscript_blocks : b.project_id = project_id}

Range(seq) == {seq[i] : i \in 1..Len(seq)}

\* A length taken after stripping the text.
StrippedLength(content) == Len(Strip(content))

\* char_count / word_count as every handler computes them:
\* len(content), len(content.split()) if content else 0.
CharCount(content) == Len(content)
BlockWordCount(content) == IF content = "" THEN 0 ELSE WordCount(content)

\* f"ms-block-{int(time.time() * 1000)}_{ordering}"
BlockId(timestamp, ordering) == NewId("ms-block-", timestamp) \o "_" \o ToString(ordering)

\* A session whose failure left the rows it had written (or deleted) before
\* the failure written (or deleted).
KeepPending(pending) == pending

\* get_db closes the session of a request that raised: of the rows the
\* session wrote or deleted and did not commit, none stays written or deleted.
Rollback(pending) == {}

\* The block import builds from one plot point.
ImportedBlock(plot, project_id, timestamp) ==
    LET content == Or(plot.scene_draft, "(" \o plot.content \o ")")
    IN  [id |-> BlockId(timestamp, plot.ordering),
         project_id |-> project_id,
         title |-> plot.title,
         content |-> content,
         ordering |-> plot.ordering,
         char_count |-> CharCount(content),
         word_count |-> BlockWordCount(content)]

\* The import loop reads the clock once per block.  Ticks(n, now) are the ways
\* the millisecond can advance while n blocks are built: entry k is how many
\* milliseconds after the first read the k-th block is built.  The reads fall
\* in one millisecond unless that would make two ids equal, where every outcome
\* the clock can produce is kept.
Ticks(plots, rank, now) ==
    LET n == Cardinality(plots)
        steady == [k \in 0..(n - 1) |-> 0]
        Distinct(ticks) ==
            \A a, b \in plots :
                BlockId(now + ticks[rank[a.id]], a.ordering)
                    = BlockId(now + ticks[rank[b.id]], b.ordering) => a = b
    IN  IF Distinct(steady) THEN {steady}
        ELSE {t \in [0..(n - 1) -> 0..(n - 1)] :
                 /\ t[0] = 0
                 /\ \A k \in 1..(n - 1) : t[k - 1] <= t[k]
                 /\ now + t[n - 1] <= MaxClock}

\* POST /projects/{project_id}/manuscript/import
import_plot_points_to_manuscript(project_id, x_project_password) ==
    LET access == get_project_if_accessible(project_id, x_project_password)
        own == {sc \in scenarios : sc.project_id = project_id}
        Reply(status, ids) == Response("import_plot_points_to_manuscript", status,
                                       project_id, x_project_password, "", ids)
    IN  IF access # 200 \/ own = {}
        THEN \* The guard fails before the handler runs.  Without a scenario the
             \* handler raises after its bulk DELETE and before any commit: the
             \* DELETE is rolled back with the session.
             /\ last' = Reply(IF access # 200 THEN access ELSE 404, <<>>)
             /\ manuscript_blocks' =
                   IF access # 200 THEN manuscript_blocks
                   ELSE manuscript_blocks \ Rollback(BlocksOfProject(project_id))
             /\ UNCHANGED <<projects, groups, cards, worldviews, worldview_groups,
                            worldview_cards, scenarios, plot_points, clock,
                            relationships, relationship_phases, foreign_keys, in_flight>>
        ELSE \E scenario \in own :
             LET plots == {pp \in plot_points : pp.scenario_id = scenario.id}
             IN  IF plots = {}
                 THEN /\ manuscript_blocks' = manuscript_blocks \ BlocksOfProject(project_id)
                      /\ last' = Reply(200, <<>>)
                      /\ UNCHANGED <<projects, groups, cards, worldviews,
                                     worldview_groups, worldview_cards, scenarios,
                                     plot_points, clock,
                                     relationships, relationship_phases, foreign_keys, in_flight>>
                 ELSE /\ clock < MaxClock
                      /\ \E rank \in Rankings(plots) :
                         \E ticks \in Ticks(plots, rank, clock + 1) :
                         LET new_blocks ==
                                 {ImportedBlock(pp, project_id,
                                                clock + 1 + ticks[rank[pp.id]]) : pp \in plots}
                         IN  /\ clock' = clock + 1 + ticks[Cardinality(plots) - 1]
                             /\ IF Cardinality(Ids(new_blocks)) = Cardinality(plots)
                                THEN /\ manuscript_blocks' =
                                          (manuscript_blocks \ BlocksOfProject(project_id))
                                              \cup new_blocks
                                     /\ last' = Reply(200, <<>>)
                                ELSE \* two blocks with one primary key: IntegrityError
                                     /\ manuscript_blocks' = manuscript_blocks
                                     /\ last' = Reply(500, <<>>)
                      /\ UNCHANGED <<projects, groups, cards, worldviews,
                                     worldview_groups, worldview_cards, scenarios,
                                     plot_points,
                                     relationships, relationship_phases, foreign_keys, in_flight>>

\* DELETE /projects/{project_id}/manuscript/blocks
clear_manuscript_blocks(project_id, x_project_password) ==
    LET access == get_project_if_accessible(project_id, x_project_password)
    IN  /\ manuscript_blocks' = IF access = 200
                                THEN manuscript_blocks \ BlocksOfProject(project_id)
                                ELSE manuscript_blocks
        /\ last' = Response("clear_manuscript_blocks", IF access = 200 THEN 204 ELSE access,
                            project_id, x_project_password, "", <<>>)
        /\ UNCHANGED <<projects, groups, cards, worldviews, worldview_groups,
                       worldview_cards, scenarios, plot_points, clock,
                       relationships, relationship_phases, foreign_keys, in_flight>>

\* The rows an UPDATE of update_manuscript_block_order can match.
BlockOrderScope(project_id) == Ids(BlocksOfProject(project_id))

\* PUT /projects/{project_id}/manuscript/blocks/order
update_manuscript_block_order(project_id, block_ids, x_project_password) ==
    LET access == get_project_if_accessible(project_id, x_project_password)
    IN  /\ manuscript_blocks' =
              IF access = 200
              THEN ApplyOrder(manuscript_blocks, block_ids, 0, BlockOrderScope(project_id))
              ELSE manuscript_blocks
        /\ last' = Response("update_manuscript_block_order", access, project_id,
                            x_project_password, project_id, block_ids)
        /\ UNCHANGED <<projects, groups, cards, worldviews, worldview_groups,
                       worldview_cards, scenarios, plot_points, clock,
                       relationships, relationship_phases, foreign_keys, in_flight>>

\* "\n\n".join of the contents of rows taken in the order rank gives them,
\* from position index on.
RECURSIVE JoinContents(_, _, _)
JoinContents(rows, rank, index) ==
    IF index >= Cardinality(rows) THEN ""
    ELSE LET block == CHOOSE b \in rows : rank[b.id] = index
             content == IF block.content = None THEN "" ELSE block.content
         IN  IF index = Cardinality(rows) - 1
             THEN content
             ELSE content \o "\n\n" \o JoinContents(rows, rank, index + 1)

\* POST /projects/{project_id}/manuscript/blocks/merge
\* The session does not autoflush: the query for the "remaining" blocks runs
\* before the DELETEs and the INSERT reach the database, so it returns every
\* old block of the project and not the new one.
merge_manuscript_blocks(project_id, block_ids, new_title, x_project_password) ==
    LET access == get_project_if_accessible(project_id, x_project_password)
        blocks == {b \in BlocksOfProject(project_id) : b.id \in Range(block_ids)}
        remaining_blocks == BlocksOfProject(project_id)
        Reply(status, id) == Response("merge_manuscript_blocks", status, project_id,
                                      x_project_password, id, block_ids)
        early == IF access # 200 THEN access
                 ELSE IF Len(block_ids) < 2 THEN 400
                 ELSE IF Cardinality(blocks) # Len(block_ids) THEN 404
                 ELSE 200
    IN  IF early # 200
        THEN /\ last' = Reply(early, "")
             /\ UNCHANGED <<projects, groups, cards, worldviews, worldview_groups,
                            worldview_cards, scenarios, plot_points,
                            manuscript_blocks, clock,
                            relationships, relationship_phases, foreign_keys, in_flight>>
        ELSE /\ clock < MaxClock
             /\ clock' = clock + 1
             /\ \E selected \in Rankings(blocks), rank \in Rankings(remaining_blocks) :
                LET first == CHOOSE b \in blocks : selected[b.id] = 0
                    merged_content == JoinContents(blocks, selected, 0)
                    merged_title ==
                        Or(new_title,
                           first.title \o " +" \o ToString(Cardinality(blocks) - 1))
                    new_block == [id |-> BlockId(clock + 1, first.ordering),
                                  project_id |-> project_id,
                                  title |-> merged_title,
                                  content |-> merged_content,
                                  ordering |-> first.ordering,
                                  char_count |-> CharCount(merged_content),
                                  word_count |-> BlockWordCount(merged_content)]
                IN  /\ manuscript_blocks' =
                          (manuscript_blocks \ remaining_blocks)
                              \cup Renumber(remaining_blocks \ blocks, rank)
                              \cup {new_block}
                    /\ last' = Reply(200, new_block.id)
             /\ UNCHANGED <<projects, groups, cards, worldviews, worldview_groups,
                            worldview_cards, scenarios, plot_points,
                            relationships, relationship_phases, foreign_keys, in_flight>>

\* POST /projects/{project_id}/manuscript/blocks/{block_id}/split
split_manuscript_block(project_id, block_id, split_position, x_project_password) ==
    LET access == get_project_if_accessible(project_id, x_project_password)
        found == {b \in BlocksOfProject(project_id) : b.id = block_id}
        Reply(status, ids) == Response("split_manuscript_block", status, project_id,
                                       x_project_password, block_id, ids)
        Unchanged(status) ==
            /\ last' = Reply(status, <<>>)
            /\ UNCHANGED <<projects, groups, cards, worldviews, worldview_groups,
                           worldview_cards, scenarios, plot_points,
                           manuscript_blocks, clock,
                           relationships, relationship_phases, foreign_keys, in_flight>>
    IN  IF access # 200 THEN Unchanged(access)
        ELSE IF found = {} THEN Unchanged(404)
        ELSE
        LET block == CHOOSE b \in found : TRUE
        IN  IF ~Truthy(block.content) \/ split_position <= 0
               \/ split_position >= Len(block.content)
            THEN Unchanged(400)
            ELSE
            LET first_part_content == Strip(SubSeq(block.content, 1, split_position))
                second_part_content ==
                    Strip(SubSeq(block.content, split_position + 1, Len(block.content)))
                first_block == [block EXCEPT
                                   !.title = block.title \o " (1)",
                                   !.content = first_part_content,
                                   !.char_count = CharCount(first_part_content),
                                   !.word_count = BlockWordCount(first_part_content)]
                second_block == [id |-> BlockId(clock + 1, block.ordering) \o "_part2",
                                 project_id |-> project_id,
                                 title |-> block.title \o " (2)",
                                 content |-> second_part_content,
                                 ordering |-> block.ordering + 1,
                                 char_count |-> CharCount(second_part_content),
                                 word_count |-> BlockWordCount(second_part_content)]
                all_blocks == (BlocksOfProject(project_id) \ {block})
                                  \cup {first_block, second_block}
            IN  IF first_part_content = "" /\ second_part_content = ""
                THEN Unchanged(400)
                ELSE /\ clock < MaxClock
                     /\ clock' = clock + 1
                     /\ \E rank \in Rankings(all_blocks) :
                           manuscript_blocks' =
                               (manuscript_blocks \ BlocksOfProject(project_id))
                                   \cup Renumber(all_blocks, rank)
                     /\ last' = Reply(200, <<first_block.id, second_block.id>>)
                     /\ UNCHANGED <<projects, groups, cards, worldviews,
                                    worldview_groups, worldview_cards, scenarios,
                                    plot_points,
                                    relationships, relationship_phases, foreign_keys, in_flight>>

\* DELETE /projects/{project_id}/manuscript/blocks/{block_id}
delete_manuscript_block(project_id, block_id, x_project_password) ==
    LET access == get_project_if_accessible(project_id, x_project_password)
        found == {b \in BlocksOfProject(project_id) : b.id = block_id}
        remaining_blocks == BlocksOfProject(project_id) \ found
        status == IF access # 200 THEN access ELSE IF found = {} THEN 404 ELSE 200
    IN  /\ IF status = 200
           THEN \E rank \in Rankings(remaining_blocks) :
                   manuscript_blocks' =
                       (manuscript_blocks \ BlocksOfProject(project_id))
                           \cup Renumber(remaining_blocks, rank)
           ELSE manuscript_blocks' = manuscript_blocks
        /\ last' = Response("delete_manuscript_block", status, project_id,
                            x_project_password, block_id, <<>>)
        /\ UNCHANGED <<projects, groups, cards, worldviews, worldview_groups,
                       worldview_cards, scenarios, plot_points, clock,
                       relationships, relationship_phases, foreign_keys, in_flight>>

\* Largest split position a request carries.
MaxSplitPosition == 4
\* Cards in the store while their fields are written and read back.
MaxCards == 2
\* Rows created before and between update requests.
MaxUpdateClock == 3

\* Every ordering of the whole of a set of ids.
CompleteLists(ids) ==
    {l \in [1..Cardinality(ids) -> ids] : \A i, j \in 1..Len(l) : l[i] = l[j] => i = j}

NextManuscript ==
    \/ create_project(None)
    \/ \E p \in IdInputs(projects), sc \in IdInputs(scenarios), ai \in AIResults :
          generate_scenario_draft_with_ai(p, sc, ai, None)
    \/ \E p \in IdInputs(projects) : import_plot_points_to_manuscript(p, None)
    \/ \E p \in IdInputs(projects) :
          \E ids \in IdLists(Ids(manuscript_blocks)) :
             merge_manuscript_blocks(p, ids, None, None)
    \/ \E p \in IdInputs(projects), b \in IdInputs(manuscript_blocks),
          position \in 0..MaxSplitPosition :
          split_manuscript_block(p, b, position, None)
    \/ \E p \in IdInputs(projects), b \in IdInputs(manuscript_blocks) :
          delete_manuscript_block(p, b, None)
    \/ \E p \in IdInputs(projects) :
          \E ids \in CompleteLists(BlockOrderScope(p)) :
             update_manuscript_block_order(p, ids, None)

SpecManuscript == Init /\ [][NextManuscript]_vars

(***************************************************************************)
(* Project access (routers/projects.py)                                    *)
(***************************************************************************)

\* GET /projects: every project with all its details, in name order (names
\* are not modelled: any order).
get_projects ==
    /\ \E listing \in CompleteLists(Ids(projects)) :
          last' = Response("get_projects", 200, "", None, "", listing)
    /\ UNCHANGED <<projects, groups, cards, worldviews, worldview_groups,
                   worldview_cards, scenarios, plot_points, manuscript_blocks,
                   clock,
                   relationships, relationship_phases, foreign_keys, in_flight>>

\* GET /projects/{project_id}/status
get_project_status(project_id) ==
    /\ last' = Response("get_project_status",
                        IF project_id \in Ids(projects) THEN 200 ELSE 404,
                        project_id, None, project_id, <<>>)
    /\ UNCHANGED <<projects, groups, cards, worldviews, worldview_groups,
                   worldview_cards, scenarios, plot_points, manuscript_blocks,
                   clock,
                   relationships, relationship_phases, foreign_keys, in_flight>>

\* POST /projects/{project_id}/verify
verify_password(project_id, password) ==
    LET found == {p \in projects : p.id = project_id}
        status == IF found = {} THEN 404
                  ELSE LET project == CHOOSE p \in found : TRUE
                       IN  IF ~Truthy(project.hashed_password) THEN 200
                           ELSE IF ~Verify(password, project.hashed_password) THEN 403
                           ELSE 200
    IN  /\ last' = Response("verify_password", status, project_id, None, project_id, <<>>)
        /\ UNCHANGED <<projects, groups, cards, worldviews, worldview_groups,
                       worldview_cards, scenarios, plot_points, manuscript_blocks,
                       clock,
                       relationships, relationship_phases, foreign_keys, in_flight>>

\* PUT /projects/{project_id}/password
set_or_change_password(project_id, password, x_project_password) ==
    LET access == get_project_if_accessible(project_id, x_project_password)
    IN  /\ projects' = IF access = 200
                       THEN {IF p.id = project_id
                             THEN [p EXCEPT !.hashed_password = Hash(password)]
                             ELSE p : p \in projects}
                       ELSE projects
        /\ last' = Response("set_or_change_password", access, project_id,
                            x_project_password, project_id, <<>>)
        /\ UNCHANGED <<groups, cards, worldviews, worldview_groups, worldview_cards,
                       scenarios, plot_points, manuscript_blocks, clock,
                       relationships, relationship_phases, foreign_keys, in_flight>>

\* GET /projects/{project_id}
get_project_details(project_id, x_project_password) ==
    LET access == get_project_if_accessible(project_id, x_project_password)
        Reply == Response("get_project_details", access, project_id,
                          x_project_password, project_id, <<>>)
    IN  IF access = 200 /\ {sc \in scenarios : sc.project_id = project_id} = {}
        THEN /\ clock < MaxClock
             /\ clock' = clock + 1
             /\ scenarios' = scenarios \cup
                    {[id |-> NewId("scen-", clock + 1), project_id |-> project_id,
                      title |-> MAIN_SCENARIO, summary |-> None, themes |-> JsonNull]}
             /\ last' = Reply
             /\ UNCHANGED <<projects, groups, cards, worldviews, worldview_groups,
                            worldview_cards, plot_points, manuscript_blocks,
                            relationships, relationship_phases, foreign_keys, in_flight>>
        ELSE /\ last' = Reply
             /\ UNCHANGED <<projects, groups, cards, worldviews, worldview_groups,
                            worldview_cards, scenarios, plot_points,
                            manuscript_blocks, clock,
                            relationships, relationship_phases, foreign_keys, in_flight>>

\* POST /projects/{project_id}/groups
create_group(project_id, name, x_project_password) ==
    LET access == get_project_if_accessible(project_id, x_project_password)
        new_group_id == NewId("group-", clock + 1)
    IN  IF access # 200
        THEN /\ last' = Response("create_group", access, project_id,
                                 x_project_password, "", <<>>)
             /\ UNCHANGED <<projects, groups, cards, worldviews, worldview_groups,
                            worldview_cards, scenarios, plot_points,
                            manuscript_blocks, clock,
                            relationships, relationship_phases, foreign_keys, in_flight>>
        ELSE /\ clock < MaxClock
             /\ clock' = clock + 1
             /\ groups' = groups \cup
                    {[id |-> new_group_id, project_id |-> project_id, name |-> name]}
             /\ last' = Response("create_group", 200, project_id, x_project_password,
                                 new_group_id, <<>>)
             /\ UNCHANGED <<projects, cards, worldviews, worldview_groups,
                            worldview_cards, scenarios, plot_points,
                            manuscript_blocks,
                            relationships, relationship_phases, foreign_keys, in_flight>>

NextAccess ==
    \/ \E password \in Passwords \cup {None} : create_project(password)
    \/ get_projects
    \/ \E p \in IdInputs(projects) : get_project_status(p)
    \/ \E p \in IdInputs(projects), password \in Passwords : verify_password(p, password)
    \/ \E p \in IdInputs(projects), password \in Passwords, header \in Headers :
          set_or_change_password(p, password, header)
    \/ \E p \in IdInputs(projects), header \in Headers : get_project_details(p, header)
    \/ \E p \in IdInputs(projects), header \in Headers : create_group(p, "heroes", header)
    \/ \E g \in groups : add_card_to_project(g.project_id, g.id, PlainCard, None)
    \/ \E g \in groups, c \in IdInputs(cards) :
          delete_card_from_project(g.project_id, g.id, c, None)
    \/ \E p \in Ids(projects), c \in Ids(cards), g \in Ids(groups) :
          move_card(p, c, g, None)
    \/ \E g \in groups :
          \E ids \in CompleteLists(CardOrderScope(g.id)) :
             update_card_order(g.project_id, g.id, ids, None)

SpecAccess == Init /\ [][NextAccess]_vars

NextPassword ==
    \/ \E password \in Passwords \cup {None} : create_project(password)
    \/ \E p \in IdInputs(projects) : get_project_status(p)
    \/ \E p \in IdInputs(projects), password \in Passwords : verify_password(p, password)
    \/ \E p \in IdInputs(projects), password \in Passwords, header \in Headers :
          set_or_change_password(p, password, header)
    \/ \E p \in IdInputs(projects), header \in Headers : get_project_details(p, header)

SpecPassword == Init /\ [][NextPassword]_vars

(***************************************************************************)
(* Worldview groups and cards (routers/projects.py)                        *)
(***************************************************************************)

\* POST /projects/{project_id}/worldview_groups
create_worldview_group(project_id, x_project_password) ==
    LET access == get_project_if_accessible(project_id, x_project_password)
        new_group_id == NewId("wv-group-", clock + 1)
    IN  IF access # 200
        THEN /\ last' = Response("create_worldview_group", access, project_id,
                                 x_project_password, "", <<>>)
             /\ UNCHANGED <<projects, groups, cards, worldviews, worldview_groups,
                            worldview_cards, scenarios, plot_points,
                            manuscript_blocks, clock,
                            relationships, relationship_phases, foreign_keys, in_flight>>
        ELSE /\ clock < MaxClock
             /\ clock' = clock + 1
             /\ worldview_groups' = worldview_groups \cup
                    {[id |-> new_group_id, project_id |-> project_id, name |-> "group"]}
             /\ last' = Response("create_worldview_group", 200, project_id,
                                 x_project_password, new_group_id, <<>>)
             /\ UNCHANGED <<projects, groups, cards, worldviews, worldview_cards,
                            scenarios, plot_points, manuscript_blocks,
                            relationships, relationship_phases, foreign_keys, in_flight>>

WorldviewCardsOf(group_id) == {c \in worldview_cards : c.group_id = group_id}

\* POST /projects/{project_id}/worldview_groups/{group_id}/cards
create_worldview_card(project_id, group_id, x_project_password) ==
    LET access == get_project_if_accessible(project_id, x_project_password)
        group == {g \in worldview_groups : g.id = group_id /\ g.project_id = project_id}
        new_card_id == NewId("wv-card-", clock + 1)
        card_count == Cardinality(WorldviewCardsOf(group_id))
    IN  IF access # 200 \/ group = {}
        THEN /\ last' = Response("create_worldview_card",
                                 IF access # 200 THEN access ELSE 404,
                                 project_id, x_project_password, "", <<>>)
             /\ UNCHANGED <<projects, groups, cards, worldviews, worldview_groups,
                            worldview_cards, scenarios, plot_points,
                            manuscript_blocks, clock,
                            relationships, relationship_phases, foreign_keys, in_flight>>
        ELSE /\ clock < MaxClock
             /\ clock' = clock + 1
             /\ worldview_cards' = worldview_cards \cup
                    {[id |-> new_card_id, group_id |-> group_id, title |-> "t",
                      content |-> "c", ordering |-> card_count]}
             /\ last' = Response("create_worldview_card", 200, project_id,
                                 x_project_password, new_card_id, <<group_id>>)
             /\ UNCHANGED <<projects, groups, cards, worldviews, worldview_groups,
                            scenarios, plot_points, manuscript_blocks,
                            relationships, relationship_phases, foreign_keys, in_flight>>

\* DELETE /projects/{project_id}/worldview_cards/{card_id}
delete_worldview_card(project_id, card_id, x_project_password) ==
    LET access == get_project_if_accessible(project_id, x_project_password)
        own_groups == {g \in worldview_groups : g.project_id = project_id}
        found == {c \in worldview_cards : c.id = card_id /\ c.group_id \in Ids(own_groups)}
        status == IF access # 200 THEN access ELSE IF found = {} THEN 404 ELSE 200
    IN  /\ IF status = 200
           THEN LET card == CHOOSE c \in found : TRUE
                    remaining_cards == WorldviewCardsOf(card.group_id) \ {card}
                IN  \E rank \in Rankings(remaining_cards) :
                       worldview_cards' =
                           (worldview_cards \ WorldviewCardsOf(card.group_id))
                               \cup Renumber(remaining_cards, rank)
           ELSE worldview_cards' = worldview_cards
        /\ last' = Response("delete_worldview_card", status, project_id,
                            x_project_password, card_id, <<>>)
        /\ UNCHANGED <<projects, groups, cards, worldviews, worldview_groups,
                       scenarios, plot_points, manuscript_blocks, clock,
                       relationships, relationship_phases, foreign_keys, in_flight>>

\* The rows an UPDATE of update_worldview_card_order can match: the filter is
\* the card id alone.
WorldviewCardOrderScope(group_id) == Ids(worldview_cards)

\* PUT /projects/{project_id}/worldview_groups/{group_id}/cards/order
update_worldview_card_order(project_id, group_id, card_ids, x_project_password) ==
    LET access == get_project_if_accessible(project_id, x_project_password)
        group == {g \in worldview_groups : g.id = group_id /\ g.project_id = project_id}
        status == IF access # 200 THEN access ELSE IF group = {} THEN 404 ELSE 200
    IN  /\ worldview_cards' =
              IF status = 200
              THEN ApplyOrder(worldview_cards, card_ids, 0,
                              WorldviewCardOrderScope(group_id))
              ELSE worldview_cards
        /\ last' = Response("update_worldview_card_order", status, project_id,
                            x_project_password, group_id, card_ids)
        /\ UNCHANGED <<projects, groups, cards, worldviews, worldview_groups,
                       scenarios, plot_points, manuscript_blocks, clock,
                       relationships, relationship_phases, foreign_keys, in_flight>>

(***************************************************************************)
(* Specification of the three explicit reorder endpoints and the requests  *)
(* that fill their sibling scopes.                                         *)
(***************************************************************************)

NextReorder ==
    \/ create_project(None)
    \/ \E g \in groups : add_card_to_project(g.project_id, g.id, PlainCard, None)
    \/ \E p \in Ids(projects) : create_worldview_group(p, None)
    \/ \E g \in worldview_groups : create_worldview_card(g.project_id, g.id, None)
    \/ \E p \in Ids(projects), c \in Ids(worldview_cards) :
          delete_worldview_card(p, c, None)
    \/ \E sc \in scenarios, ai \in AIResults :
          /\ ai.kind = "json"
          /\ generate_scenario_draft_with_ai(sc.project_id, sc.id, ai, None)
    \/ \E p \in Ids(projects) : import_plot_points_to_manuscript(p, None)
    \/ \E g \in groups :
          \E ids \in IdLists(IdInputs(cards)) :
             update_card_order(g.project_id, g.id, ids, None)
    \/ \E g \in worldview_groups :
          \E ids \in IdLists(IdInputs(worldview_cards)) :
             update_worldview_card_order(g.project_id, g.id, ids, None)
    \/ \E p \in Ids(projects) :
          \E ids \in IdLists(IdInputs(manuscript_blocks)) :
             update_manuscript_block_order(p, ids, None)

SpecReorder == Init /\ [][NextReorder]_vars

(***************************************************************************)
(* Specification of the three deleting endpoints that renumber, and the    *)
(* requests that fill their sibling scopes.                                *)
(***************************************************************************)

NextDelete ==
    \/ create_project(None)
    \/ \E sc \in scenarios, ai \in AIResults :
          /\ ai.kind = "json"
          /\ generate_scenario_draft_with_ai(sc.project_id, sc.id, ai, None)
    \/ \E sc \in scenarios, d \in PlotPointInputs :
          create_plot_point(sc.project_id, sc.id, d, None)
    \/ \E p \in Ids(projects) : import_plot_points_to_manuscript(p, None)
    \/ \E p \in Ids(projects) : create_worldview_group(p, None)
    \/ \E g \in worldview_groups : create_worldview_card(g.project_id, g.id, None)
    \/ \E p \in IdInputs(projects), pp \in IdInputs(plot_points) :
          delete_plot_point(p, pp, None)
    \/ \E p \in IdInputs(projects), c \in IdInputs(worldview_cards) :
          delete_worldview_card(p, c, None)
    \/ \E p \in IdInputs(projects), b \in IdInputs(manuscript_blocks) :
          delete_manuscript_block(p, b, None)

SpecDelete == Init /\ [][NextDelete]_vars

(***************************************************************************)
(* Relationships and project deletion (routers/projects.py)                *)
(***************************************************************************)

\* Bodies of create_relationship requests (CreateRelationshipRequest); the
\* character ids are path-free inputs of the action.
RelationshipInputs ==
    {[type |-> "ally", description |-> d, phase_order |-> 1] : d \in {None, "d"}}

\* POST /projects/{project_id}/relationships
\* Neither character id is looked up; on an engine that enforces foreign keys
\* the INSERT fails when one of them is not the id of a card.
create_relationship(project_id, source_character_id, target_character_id, request, x_project_password) ==
    LET access == get_project_if_accessible(project_id, x_project_password)
        new_rel_id == NewId("rel-", clock + 1)
        new_rel == [id |-> new_rel_id,
                    project_id |-> project_id,
                    source_character_id |-> source_character_id,
                    target_character_id |-> target_character_id,
                    type |-> request.type,
                    description |-> request.description,
                    phase_order |-> request.phase_order]
        Reply(status, id) == Response("create_relationship", status, project_id,
                                      x_project_password, id,
                                      <<source_character_id, target_character_id>>)
    IN  IF access # 200
        THEN /\ last' = Reply(access, "")
             /\ UNCHANGED <<projects, groups, cards, worldviews, worldview_groups,
                            worldview_cards, relationships, relationship_phases,
                            scenarios, plot_points, manuscript_blocks,
                            foreign_keys, in_flight, clock>>
        ELSE /\ clock < MaxClock
             /\ clock' = clock + 1
             /\ IF foreign_keys
                   /\ ~({source_character_id, target_character_id} \subseteq Ids(cards))
                THEN /\ relationships' = relationships
                     /\ last' = Reply(500, "")
                ELSE /\ relationships' = relationships \cup {new_rel}
                     /\ last' = Reply(200, new_rel_id)
             /\ UNCHANGED <<projects, groups, cards, worldviews, worldview_groups,
                            worldview_cards, relationship_phases, scenarios,
                            plot_points, manuscript_blocks, foreign_keys, in_flight>>

\* POST /projects/{project_id}/relationships/{relationship_id}/phases
create_relationship_phase(project_id, relationship_id, phase_order, x_project_password) ==
    LET access == get_project_if_accessible(project_id, x_project_password)
        rel == {r \in relationships : r.id = relationship_id /\ r.project_id = project_id}
        new_phase_id == NewId("phase-", clock + 1)
    IN  IF access # 200 \/ rel = {}
        THEN /\ last' = Response("create_relationship_phase",
                                 IF access # 200 THEN access ELSE 404,
                                 project_id, x_project_password, "", <<>>)
             /\ UNCHANGED <<projects, groups, cards, worldviews, worldview_groups,
                            worldview_cards, relationships, relationship_phases,
                            scenarios, plot_points, manuscript_blocks,
                            foreign_keys, in_flight, clock>>
        ELSE /\ clock < MaxClock
             /\ clock' = clock + 1
             /\ relationship_phases' = relationship_phases \cup
                    {[id |-> new_phase_id, relationship_id |-> relationship_id,
                      phase_order |-> phase_order, type |-> "ally",
                      description |-> None]}
             /\ last' = Response("create_relationship_phase", 200, project_id,
                                 x_project_password, new_phase_id, <<relationship_id>>)
             /\ UNCHANGED <<projects, groups, cards, worldviews, worldview_groups,
                            worldview_cards, relationships, scenarios, plot_points,
                            manuscript_blocks, foreign_keys, in_flight>>

\* A deletion that removes the project row and nothing below it.
ProjectRowOnly(project_id) ==
    [projects |-> {p \in projects : p.id = project_id},
     groups |-> {}, cards |-> {}, worldviews |-> {}, worldview_groups |-> {},
     worldview_cards |-> {}, relationships |-> {}, relationship_phases |-> {},
     scenarios |-> {}, plot_points |-> {}, manuscript_blocks |-> {}]

\* The rows the ORM deletes with the project: cascade="all, delete-orphan" on
\* every relationship() of Project, Group, WorldviewGroup, Relationship and
\* Scenario.
Cascade(project_id) ==
    LET own_groups == {g \in groups : g.project_id = project_id}
        own_worldview_groups == {g \in worldview_groups : g.project_id = project_id}
        own_relationships == {r \in relationships : r.project_id = project_id}
        own_scenarios == {sc \in scenarios : sc.project_id = project_id}
    IN  [projects |-> {p \in projects : p.id = project_id},
         groups |-> own_groups,
         cards |-> {c \in cards : c.group_id \in Ids(own_groups)},
         worldviews |-> {w \in worldviews : w.project_id = project_id},
         worldview_groups |-> own_worldview_groups,
         worldview_cards |->
             {c \in worldview_cards : c.group_id \in Ids(own_worldview_groups)},
         relationships |-> own_relationships,
         relationship_phases |->
             {ph \in relationship_phases : ph.relationship_id \in Ids(own_relationships)},
         scenarios |-> own_scenarios,
         plot_points |-> {pp \in plot_points : pp.scenario_id \in Ids(own_scenarios)},
         manuscript_blocks |-> {b \in manuscript_blocks : b.project_id = project_id}]

\* DELETE /projects/{project_id}
delete_project(project_id, x_project_password) ==
    LET access == get_project_if_accessible(project_id, x_project_password)
        deleted == Cascade(project_id)
        status == IF access # 200 THEN access
                  ELSE IF foreign_keys
                          /\ Dangling(deleted.cards, deleted.relationships) # {}
                       THEN 500
                       ELSE 200
        Keep(table, rows) == IF status = 200 THEN table \ rows ELSE table
    IN  /\ projects' = Keep(projects, deleted.projects)
        /\ groups' = Keep(groups, deleted.groups)
        /\ cards' = Keep(cards, deleted.cards)
        /\ worldviews' = Keep(worldviews, deleted.worldviews)
        /\ worldview_groups' = Keep(worldview_groups, deleted.worldview_groups)
        /\ worldview_cards' = Keep(worldview_cards, deleted.worldview_cards)
        /\ relationships' = Keep(relationships, deleted.relationships)
        /\ relationship_phases' = Keep(relationship_phases, deleted.relationship_phases)
        /\ scenarios' = Keep(scenarios, deleted.scenarios)
        /\ plot_points' = Keep(plot_points, deleted.plot_points)
        /\ manuscript_blocks' = Keep(manuscript_blocks, deleted.manuscript_blocks)
        /\ last' = Response("delete_project", status, project_id,
                            x_project_password, project_id, <<>>)
        /\ UNCHANGED <<foreign_keys, in_flight, clock>>

NextCascade ==
    \/ create_project(None)
    \/ \E g \in groups : add_card_to_project(g.project_id, g.id, PlainCard, None)
    \/ \E p \in Ids(projects), c \in Ids(cards), g \in Ids(groups) :
          move_card(p, c, g, None)
    \/ \E p \in Ids(projects), source \in IdInputs(cards), target \in IdInputs(cards),
          request \in RelationshipInputs :
          create_relationship(p, source, target, request, None)
    \/ \E r \in relationships : create_relationship_phase(r.project_id, r.id, 1, None)
    \/ \E p \in Ids(projects) : create_worldview_group(p, None)
    \/ \E g \in worldview_groups : create_worldview_card(g.project_id, g.id, None)
    \/ \E sc \in scenarios, d \in PlotPointInputs :
          create_plot_point(sc.project_id, sc.id, d, None)
    \/ \E p \in Ids(projects) : import_plot_points_to_manuscript(p, None)
    \/ \E p \in IdInputs(projects) : delete_project(p, None)

SpecCascade == Init /\ [][NextCascade]_vars

(***************************************************************************)
(* Sample projects and character groups                                    *)
(***************************************************************************)

\* Title create_sample_project gives the scenario when the payload names none
\* ('메인 스토리').
MAIN_STORY == "main story"
\* Summary of that default scenario ('샘플 프로젝트의 메인 스토리').
SAMPLE_SUMMARY == "main story of the sample project"

\* sample_data of a request that carries none (None or {}).
NoSampleData ==
    [empty |-> TRUE, groups |-> <<>>, relationships |-> <<>>,
     worldview_groups |-> <<>>, has_worldview |-> FALSE,
     worldview |-> DefaultWorldviewContent, scenarios |-> <<>>]

\* A payload with every section: two character groups, one of them the
\* uncategorized one, relationships between its cards and to a card it does
\* not hold, a worldview group and a scenario with two plot points.
SampleFull ==
    [empty |-> FALSE,
     groups |-> << [name |-> "heroes",
                    cards |-> << [id |-> "a", name |-> "A", description |-> "d",
                                  goal |-> <<"g1">>],
                                 [id |-> "b", name |-> "B", description |-> "d",
                                  goal |-> <<>>] >>],
                   [name |-> UNCATEGORIZED,
                    cards |-> << [id |-> "c", name |-> "C", description |-> "d",
                                  goal |-> <<"g1", "g2">>] >>] >>,
     relationships |-> << [source_character_id |-> "a", target_character_id |-> "x",
                           type |-> "rival", description |-> "d", phase_order |-> 1],
                          [source_character_id |-> "a", target_character_id |-> "c",
                           type |-> "ally", description |-> "d", phase_order |-> 1],
                          [source_character_id |-> "x", target_character_id |-> "b",
                           type |-> "rival", description |-> "d", phase_order |-> 1],
                          [source_character_id |-> "c", target_character_id |-> "b",
                           type |-> "ally", description |-> "d", phase_order |-> 1] >>,
     worldview_groups |-> << [name |-> "places",
                              worldview_cards |-> << [title |-> "t", content |-> "c"] >>] >>,
     has_worldview |-> TRUE,
     worldview |-> [logline |-> "l", genre |-> "g", rules |-> <<"r">>],
     scenarios |-> << [title |-> "story", summary |-> "",
                       plot_points |-> << [title |-> "t", content |-> "a b", ordering |-> 0],
                                          [title |-> "t", content |-> None, ordering |-> 1] >>] >>]

\* A payload with one character group and nothing else.
SampleBare ==
    [empty |-> FALSE,
     groups |-> << [name |-> "heroes",
                    cards |-> << [id |-> "a", name |-> "A", description |-> "d",
                                  goal |-> <<"g1">>] >>] >>,
     relationships |-> <<>>,
     worldview_groups |-> <<>>,
     has_worldview |-> FALSE,
     worldview |-> DefaultWorldviewContent,
     scenarios |-> <<>>]

\* A payload whose scenario has two plot points of the same ordering.
SampleClash ==
    [empty |-> FALSE,
     groups |-> << [name |-> UNCATEGORIZED,
                    cards |-> << [id |-> "a", name |-> "A", description |-> "d",
                                  goal |-> <<>>] >>] >>,
     relationships |-> <<>>,
     worldview_groups |-> <<>>,
     has_worldview |-> FALSE,
     worldview |-> DefaultWorldviewContent,
     scenarios |-> << [title |-> "story", summary |-> "",
                       plot_points |-> << [title |-> "t", content |-> "a b", ordering |-> 0],
                                          [title |-> "u", content |-> "a b", ordering |-> 0] >>] >>]

SamplePayloads == {NoSampleData, SampleFull, SampleBare, SampleClash}

\* f"{prefix}{timestamp}-{n}"
SampleId(prefix, timestamp, n) == prefix \o ToString(timestamp) \o "-" \o ToString(n)

\* len(cards_to_create) when the loop reaches group i of the payload.
RECURSIVE CardsBefore(_, _)
CardsBefore(groups_data, i) ==
    IF i = 1 THEN 0
    ELSE CardsBefore(groups_data, i - 1) + Len(groups_data[i - 1].cards)

\* len(worldview_cards_to_create) when the loop reaches worldview group i.
RECURSIVE WorldviewCardsBefore(_, _)
WorldviewCardsBefore(groups_data, i) ==
    IF i = 1 THEN 0
    ELSE WorldviewCardsBefore(groups_data, i - 1)
         + Len(groups_data[i - 1].worldview_cards)

\* groups_to_create
SampleGroups(timestamp, new_project_id, groups_data) ==
    {[id |-> SampleId("group-", timestamp, i - 1), project_id |-> new_project_id,
      name |-> groups_data[i].name] : i \in 1..Len(groups_data)}

\* cards_to_create
SampleCards(timestamp, groups_data) ==
    UNION {{[id |-> SampleId("card-", timestamp, CardsBefore(groups_data, i) + j - 1),
             group_id |-> SampleId("group-", timestamp, i - 1),
             name |-> groups_data[i].cards[j].name,
             description |-> groups_data[i].cards[j].description,
             goal |-> Dumps(groups_data[i].cards[j].goal),
             ordering |-> j - 1] : j \in 1..Len(groups_data[i].cards)}
           : i \in 1..Len(groups_data)}

\* A map that answers every original id with the id of the first card.
FirstCardId(timestamp, groups_data, original_card_id) ==
    SampleId("card-", timestamp, 0)

\* card_id_map.get(original_card_id): the id given to the last card of the
\* payload that carries original_card_id, None when no card carries it.
card_id_map(timestamp, groups_data, original_card_id) ==
    LET positions == UNION {{CardsBefore(groups_data, i) + j - 1 :
                               j \in {k \in 1..Len(groups_data[i].cards) :
                                        groups_data[i].cards[k].id = original_card_id}}
                            : i \in 1..Len(groups_data)}
    IN  IF positions = {} THEN None
        ELSE SampleId("card-", timestamp, Max(positions))

\* relationships_to_create
SampleRelationships(timestamp, new_project_id, groups_data, relationships_data) ==
    LET source_id(r) == card_id_map(timestamp, groups_data,
                                    relationships_data[r].source_character_id)
        target_id(r) == card_id_map(timestamp, groups_data,
                                    relationships_data[r].target_character_id)
        created == {r \in 1..Len(relationships_data) :
                      Truthy(source_id(r)) /\ Truthy(target_id(r))}
    IN  {[id |-> SampleId("rel-", timestamp, Cardinality({k \in created : k < r})),
          project_id |-> new_project_id,
          source_character_id |-> source_id(r),
          target_character_id |-> target_id(r),
          type |-> relationships_data[r].type,
          description |-> relationships_data[r].description,
          phase_order |-> relationships_data[r].phase_order] : r \in created}

\* worldview_groups_to_create
SampleWorldviewGroups(timestamp, new_project_id, groups_data) ==
    {[id |-> SampleId("wv-group-", timestamp, i - 1), project_id |-> new_project_id,
      name |-> groups_data[i].name] : i \in 1..Len(groups_data)}

\* worldview_cards_to_create
SampleWorldviewCards(timestamp, groups_data) ==
    UNION {{[id |-> SampleId("wv-card-", timestamp,
                             WorldviewCardsBefore(groups_data, i) + j - 1),
             group_id |-> SampleId("wv-group-", timestamp, i - 1),
             title |-> groups_data[i].worldview_cards[j].title,
             content |-> groups_data[i].worldview_cards[j].content,
             ordering |-> j - 1] : j \in 1..Len(groups_data[i].worldview_cards)}
           : i \in 1..Len(groups_data)}

\* The scenario: the first of the payload, or the default one.
SampleScenario(timestamp, new_project_id, scenarios_data) ==
    [id |-> NewId("scen-", timestamp), project_id |-> new_project_id,
     title |-> IF scenarios_data # <<>> THEN scenarios_data[1].title ELSE MAIN_STORY,
     summary |-> IF scenarios_data # <<>> THEN scenarios_data[1].summary
                 ELSE SAMPLE_SUMMARY,
     themes |-> JsonNull]

\* plot_points_to_create, as the list the handler adds to the session.
SamplePlotPoints(timestamp, scenarios_data) ==
    IF scenarios_data = <<>> THEN <<>>
    ELSE [k \in 1..Len(scenarios_data[1].plot_points) |->
            [id |-> SampleId("plot-", timestamp, scenarios_data[1].plot_points[k].ordering),
             scenario_id |-> NewId("scen-", timestamp),
             title |-> scenarios_data[1].plot_points[k].title,
             content |-> scenarios_data[1].plot_points[k].content,
             scene_draft |-> None,
             ordering |-> scenarios_data[1].plot_points[k].ordering]]

\* POST /projects/create-from-sample
\* Every row is added to the session and one commit writes them; two rows of
\* one table with the same primary key make the commit fail, and the session
\* is closed without anything written.
create_sample_project(sample_data) ==
    /\ clock < MaxClock
    /\ Cardinality(projects) < MaxProjects
    /\ LET timestamp == clock + 1
           new_project_id == NewId("project-sample-", timestamp)
           groups_to_create == SampleGroups(timestamp, new_project_id, sample_data.groups)
           cards_to_create == SampleCards(timestamp, sample_data.groups)
           relationships_to_create ==
               SampleRelationships(timestamp, new_project_id, sample_data.groups,
                                   sample_data.relationships)
           worldview_groups_to_create ==
               SampleWorldviewGroups(timestamp, new_project_id,
                                     sample_data.worldview_groups)
           worldview_cards_to_create ==
               SampleWorldviewCards(timestamp, sample_data.worldview_groups)
           worldview_content == IF sample_data.has_worldview
                                THEN sample_data.worldview
                                ELSE DefaultWorldviewContent
           scenario == SampleScenario(timestamp, new_project_id, sample_data.scenarios)
           plot_points_to_create == SamplePlotPoints(timestamp, sample_data.scenarios)
           Reply(status) == Response("create_sample_project", status, new_project_id,
                                     None, new_project_id, <<>>)
       IN  /\ clock' = timestamp
           /\ IF sample_data.empty
              THEN /\ last' = Reply(400)
                   /\ UNCHANGED <<projects, groups, cards, worldviews, worldview_groups,
                                  worldview_cards, relationships, scenarios, plot_points>>
              ELSE IF Cardinality(Ids(Range(plot_points_to_create)))
                        # Len(plot_points_to_create)
              THEN /\ projects' = projects \cup
                          Rollback({[id |-> new_project_id, hashed_password |-> None]})
                   /\ worldviews' = worldviews \cup
                          Rollback({[project_id |-> new_project_id,
                                     content |-> worldview_content]})
                   /\ scenarios' = scenarios \cup Rollback({scenario})
                   /\ groups' = groups \cup Rollback(groups_to_create)
                   /\ cards' = cards \cup Rollback(cards_to_create)
                   /\ relationships' = relationships \cup Rollback(relationships_to_create)
                   /\ worldview_groups' = worldview_groups
                                           \cup Rollback(worldview_groups_to_create)
                   /\ worldview_cards' = worldview_cards
                                          \cup Rollback(worldview_cards_to_create)
                   /\ UNCHANGED plot_points
                   /\ last' = Reply(500)
              ELSE /\ projects' = projects \cup
                          {[id |-> new_project_id, hashed_password |-> None]}
                   /\ worldviews' = worldviews \cup
                          {[project_id |-> new_project_id, content |-> worldview_content]}
                   /\ scenarios' = scenarios \cup {scenario}
                   /\ groups' = groups \cup groups_to_create
                   /\ cards' = cards \cup cards_to_create
                   /\ relationships' = relationships \cup relationships_to_create
                   /\ worldview_groups' = worldview_groups \cup worldview_groups_to_create
                   /\ worldview_cards' = worldview_cards \cup worldview_cards_to_create
                   /\ plot_points' = plot_points \cup Range(plot_points_to_create)
                   /\ last' = Reply(200)
    /\ UNCHANGED <<relationship_phases, manuscript_blocks, foreign_keys, in_flight>>

\* Names a client may give a character group.
GroupNames == {UNCATEGORIZED, "heroes"}

\* DELETE /projects/{project_id}/groups/{group_id}
\* The group's cards go with it (cascade of Group.cards); on an engine that
\* enforces foreign keys the commit fails while a relationship points at one
\* of them.
delete_group(project_id, group_id, x_project_password) ==
    LET access == get_project_if_accessible(project_id, x_project_password)
        group == {g \in groups : g.id = group_id /\ g.project_id = project_id}
        group_cards == {c \in cards : c.group_id = group_id}
        Reply(status) == Response("delete_group", status, project_id,
                                  x_project_password, group_id, <<>>)
    IN  /\ IF access # 200
           THEN /\ last' = Reply(access)
                /\ UNCHANGED <<groups, cards>>
           ELSE IF group = {}
           THEN /\ last' = Reply(404)
                /\ UNCHANGED <<groups, cards>>
           ELSE IF \E g \in group : g.name = UNCATEGORIZED
           THEN /\ last' = Reply(400)
                /\ UNCHANGED <<groups, cards>>
           ELSE IF foreign_keys /\ Dangling(group_cards, {}) # {}
           THEN /\ last' = Reply(500)
                /\ UNCHANGED <<groups, cards>>
           ELSE /\ groups' = groups \ group
                /\ cards' = cards \ group_cards
                /\ last' = Reply(200)
        /\ UNCHANGED <<projects, worldviews, worldview_groups, worldview_cards,
                       relationships, relationship_phases, scenarios, plot_points,
                       manuscript_blocks, foreign_keys, in_flight, clock>>

NextGroups ==
    \/ \E password \in Passwords \cup {None} : create_project(password)
    \/ \E sample_data \in SamplePayloads : create_sample_project(sample_data)
    \/ \E p \in IdInputs(projects), name \in GroupNames, header \in {None, "pw"} :
          create_group(p, name, header)
    \/ \E p \in Ids(projects), g \in IdInputs(groups), header \in {None, "pw"} :
          delete_group(p, g, header)

SpecGroups == Init /\ [][NextGroups]_vars

(***************************************************************************)
(* Concurrent reads of a project                                           *)
(***************************************************************************)

\* The handlers are plain functions, so the server runs each request on a
\* thread of its pool with a session of its own.  get_project_details reads
\* project.scenarios and, when it finds none, inserts a scenario and commits:
\* here the read and the commit are two steps, and in_flight holds the requests
\* that have read no scenario and have not committed yet.
Requests == {"r1", "r2"}

\* A project stored before projects were created with a scenario: the rows
\* create_project writes, without the scenario.  It is the case the branch of
\* get_project_details exists for.
LegacyProject == [id |-> "project-0", hashed_password |-> None]

InitScenario ==
    /\ projects = {LegacyProject}
    /\ groups = {[id |-> "group-uncategorized-0", project_id |-> LegacyProject.id,
                  name |-> UNCATEGORIZED]}
    /\ worldviews = {[project_id |-> LegacyProject.id,
                      content |-> DefaultWorldviewContent]}
    /\ cards = {}
    /\ worldview_groups = {}
    /\ worldview_cards = {}
    /\ relationships = {}
    /\ relationship_phases = {}
    /\ scenarios = {}
    /\ plot_points = {}
    /\ manuscript_blocks = {}
    /\ foreign_keys \in BOOLEAN
    /\ in_flight = {}
    /\ clock = 0
    /\ last = Response("start", 200, "", None, "", <<>>)

\* GET /projects/{project_id}, up to the test "if not project.scenarios".
get_project_details_read(request, project_id, x_project_password) ==
    LET access == get_project_if_accessible(project_id, x_project_password)
    IN  /\ \A q \in in_flight : q.request # request
        /\ IF access = 200 /\ {sc \in scenarios : sc.project_id = project_id} = {}
           THEN /\ in_flight' = in_flight \cup
                       {[request |-> request, project_id |-> project_id,
                         password |-> x_project_password]}
                /\ last' = Response("get_project_details_read", 200, project_id,
                                    x_project_password, project_id, <<>>)
           ELSE /\ last' = Response("get_project_details", access, project_id,
                                    x_project_password, project_id, <<>>)
                /\ UNCHANGED in_flight
        /\ UNCHANGED <<projects, groups, cards, worldviews, worldview_groups,
                       worldview_cards, relationships, relationship_phases,
                       scenarios, plot_points, manuscript_blocks, foreign_keys, clock>>

\* GET /projects/{project_id}, from the ScenarioModel(...) it builds to the
\* commit.  The id is made of the millisecond the request reads: the one of
\* the previous id, when the clock has not moved since, or a later one.  An id
\* already in the table makes the commit fail.
get_project_details_commit(request, timestamp) ==
    \E q \in in_flight :
        /\ q.request = request
        /\ timestamp <= MaxClock
        /\ clock' = timestamp
        /\ in_flight' = in_flight \ {q}
        /\ IF NewId("scen-", timestamp) \in Ids(scenarios)
           THEN /\ last' = Response("get_project_details", 500, q.project_id,
                                    q.password, q.project_id, <<>>)
                /\ UNCHANGED scenarios
           ELSE /\ scenarios' = scenarios \cup
                       {[id |-> NewId("scen-", timestamp), project_id |-> q.project_id,
                         title |-> MAIN_SCENARIO, summary |-> None, themes |-> JsonNull]}
                /\ last' = Response("get_project_details", 200, q.project_id,
                                    q.password, q.project_id, <<>>)
        /\ UNCHANGED <<projects, groups, cards, worldviews, worldview_groups,
                       worldview_cards, relationships, relationship_phases,
                       plot_points, manuscript_blocks, foreign_keys>>

NextScenario ==
    \/ \E password \in {None, "pw"} : create_project(password)
    \/ \E sample_data \in {SampleFull, SampleBare} : create_sample_project(sample_data)
    \/ \E request \in Requests, p \in Ids(projects), header \in {None, "pw"} :
          get_project_details_read(request, p, header)
    \/ \E request \in Requests, timestamp \in {clock, clock + 1} :
          get_project_details_commit(request, timestamp)

SpecScenario == InitScenario /\ [][NextScenario]_vars

(***************************************************************************)
(* Card fields                                                             *)
(***************************************************************************)

\* Bodies of update_card requests (UpdateCardRequest): set names the fields
\* the body carries, the others are unset.
UpdateCardInputs ==
    {[set |-> fields, name |-> "n2", description |-> "d2", goal |-> g] :
        fields \in {{}, {"goal"}, {"name", "description"}, {"name", "description", "goal"}},
        g \in {<<>>, <<"g2">>}}

\* model_dump(exclude_unset=True) followed by setattr for every key: the row
\* with the fields of the body written, a list field as the list itself.
SetCardFields(card, card_data) ==
    [card EXCEPT !.name = IF "name" \in card_data.set THEN card_data.name ELSE @,
                 !.description = IF "description" \in card_data.set
                                 THEN card_data.description ELSE @,
                 !.goal = IF "goal" \in card_data.set
                          THEN JsonList(card_data.goal) ELSE @]

\* PUT /projects/{project_id}/cards/{card_id}
update_card(project_id, card_id, card_data, x_project_password) ==
    LET access == get_project_if_accessible(project_id, x_project_password)
        card == {c \in cards : /\ c.id = card_id
                               /\ \E g \in groups : g.id = c.group_id
                                                    /\ g.project_id = project_id}
        Reply(status) == Response("update_card", status, project_id,
                                  x_project_password, card_id, <<>>)
    IN  /\ IF access # 200
           THEN /\ last' = Reply(access)
                /\ UNCHANGED cards
           ELSE IF card = {}
           THEN /\ last' = Reply(404)
                /\ UNCHANGED cards
           ELSE /\ cards' = (cards \ card) \cup {SetCardFields(c, card_data) : c \in card}
                /\ last' = Reply(200)
        /\ UNCHANGED <<projects, groups, worldviews, worldview_groups, worldview_cards,
                       relationships, relationship_phases, scenarios, plot_points,
                       manuscript_blocks, foreign_keys, in_flight, clock>>

\* What convert_project_orm_to_pydantic puts in a card's list field: the
\* column's value when it is a list, [] for any other value.
AssembledList(field_value) ==
    IF field_value.json = "list" THEN field_value.items ELSE <<>>

\* The goal the project assembly returns for the card of this id.
AssembledGoal(card_id) ==
    AssembledList((CHOOSE c \in cards : c.id = card_id).goal)

NextCardFields ==
    \/ create_project(None)
    \/ Cardinality(cards) < MaxCards /\ create_sample_project(SampleBare)
    \/ \E g \in groups, card \in CardInputs :
          /\ Cardinality(cards) < MaxCards
          /\ add_card_to_project(g.project_id, g.id, card, None)
    \/ \E p \in Ids(projects), c \in IdInputs(cards), card_data \in UpdateCardInputs :
          update_card(p, c, card_data, None)

SpecCardFields == Init /\ [][NextCardFields]_vars

(***************************************************************************)
(* Updates                                                                 *)
(***************************************************************************)

\* A request body is a record of field values with the set of the fields the
\* body carries.  The attribute the handler reads for an optional field: the
\* value of the body, None when the body omits the field.
Given(request, field) == IF field \in request.set THEN request[field] ELSE None

\* Bodies of update_worldview_card_details requests (UpdateWorldviewCardRequest).
UpdateWorldviewCardInputs ==
    {[set |-> fields, title |-> "t2", content |-> "c2"] :
        fields \in {{}, {"title"}, {"content"}}}

\* PUT /projects/{project_id}/worldview_cards/{card_id}/details
update_worldview_card_details(project_id, card_id, card_data, x_project_password) ==
    LET access == get_project_if_accessible(project_id, x_project_password)
        card == {c \in worldview_cards :
                    /\ c.id = card_id
                    /\ \E g \in worldview_groups : g.id = c.group_id
                                                   /\ g.project_id = project_id}
        Reply(status) == Response("update_worldview_card_details", status, project_id,
                                  x_project_password, card_id, <<>>)
        Updated(c) ==
            [c EXCEPT !.title = IF "title" \in card_data.set THEN card_data.title ELSE @,
                      !.content = IF "content" \in card_data.set
                                  THEN card_data.content ELSE @]
    IN  /\ IF access # 200
           THEN /\ last' = Reply(access)
                /\ UNCHANGED worldview_cards
           ELSE IF card = {}
           THEN /\ last' = Reply(404)
                /\ UNCHANGED worldview_cards
           ELSE /\ worldview_cards' = (worldview_cards \ card)
                                      \cup {Updated(c) : c \in card}
                /\ last' = Reply(200)
        /\ UNCHANGED <<projects, groups, cards, worldviews, worldview_groups,
                       relationships, relationship_phases, scenarios, plot_points,
                       manuscript_blocks, foreign_keys, in_flight, clock>>

\* Bodies of update_relationship requests (UpdateRelationshipRequest): type is
\* required.
UpdateRelationshipInputs ==
    {[set |-> fields, type |-> "foe", description |-> "d2", phase_order |-> 2] :
        fields \in {{"type"}, {"type", "description"}, {"type", "phase_order"}}}

\* PUT /projects/{project_id}/relationships/{relationship_id}
update_relationship(project_id, relationship_id, request, x_project_password) ==
    LET access == get_project_if_accessible(project_id, x_project_password)
        rel == {r \in relationships : r.id = relationship_id /\ r.project_id = project_id}
        Reply(status) == Response("update_relationship", status, project_id,
                                  x_project_password, relationship_id, <<>>)
        Updated(r) ==
            [r EXCEPT !.type = request.type,
                      !.description = Given(request, "description"),
                      !.phase_order = IF "phase_order" \in request.set
                                      THEN request.phase_order ELSE @]
    IN  /\ IF access # 200
           THEN /\ last' = Reply(access)
                /\ UNCHANGED relationships
           ELSE IF rel = {}
           THEN /\ last' = Reply(404)
                /\ UNCHANGED relationships
           ELSE /\ relationships' = (relationships \ rel) \cup {Updated(r) : r \in rel}
                /\ last' = Reply(200)
        /\ UNCHANGED <<projects, groups, cards, worldviews, worldview_groups,
                       worldview_cards, relationship_phases, scenarios, plot_points,
                       manuscript_blocks, foreign_keys, in_flight, clock>>

\* Bodies of update_relationship_phase requests (UpdateRelationshipPhaseRequest).
UpdateRelationshipPhaseInputs ==
    {[set |-> fields, phase_order |-> 2, type |-> "foe", description |-> "d2"] :
        fields \in {{}, {"type"}, {"description", "phase_order"}}}

\* PUT /projects/{project_id}/relationships/{relationship_id}/phases/{phase_id}
update_relationship_phase(project_id, relationship_id, phase_id, request, x_project_password) ==
    LET access == get_project_if_accessible(project_id, x_project_password)
        rel == {r \in relationships : r.id = relationship_id /\ r.project_id = project_id}
        phase == {ph \in relationship_phases :
                     ph.id = phase_id /\ ph.relationship_id = relationship_id}
        Reply(status) == Response("update_relationship_phase", status, project_id,
                                  x_project_password, phase_id, <<>>)
        Updated(ph) ==
            [ph EXCEPT !.phase_order = IF "phase_order" \in request.set
                                       THEN request.phase_order ELSE @,
                       !.type = IF "type" \in request.set THEN request.type ELSE @,
                       !.description = IF "description" \in request.set
                                       THEN request.description ELSE @]
    IN  /\ IF access # 200
           THEN /\ last' = Reply(access)
                /\ UNCHANGED relationship_phases
           ELSE IF rel = {} \/ phase = {}
           THEN /\ last' = Reply(404)
                /\ UNCHANGED relationship_phases
           ELSE /\ relationship_phases' = (relationship_phases \ phase)
                                          \cup {Updated(ph) : ph \in phase}
                /\ last' = Reply(200)
        /\ UNCHANGED <<projects, groups, cards, worldviews, worldview_groups,
                       worldview_cards, relationships, scenarios, plot_points,
                       manuscript_blocks, foreign_keys, in_flight, clock>>

\* Bodies of update_scenario_details requests (ScenarioBase): title is
\* required; themes is a list.
ScenarioInputs ==
    {[set |-> fields, title |-> "t2", summary |-> "s2", themes |-> <<"th">>] :
        fields \in {{"title"}, {"title", "summary"}, {"title", "themes"}}}

\* PUT /projects/{project_id}/scenarios/{scenario_id}
update_scenario_details(project_id, scenario_id, scenario_data, x_project_password) ==
    LET access == get_project_if_accessible(project_id, x_project_password)
        scenario == {sc \in scenarios : sc.id = scenario_id /\ sc.project_id = project_id}
        Reply(status) == Response("update_scenario_details", status, project_id,
                                  x_project_password, scenario_id, <<>>)
        Updated(sc) ==
            [sc EXCEPT !.title = scenario_data.title,
                       !.summary = Given(scenario_data, "summary"),
                       !.themes = IF "themes" \in scenario_data.set
                                  THEN Dumps(scenario_data.themes) ELSE @]
    IN  /\ IF access # 200
           THEN /\ last' = Reply(access)
                /\ UNCHANGED scenarios
           ELSE IF scenario = {}
           THEN /\ last' = Reply(404)
                /\ UNCHANGED scenarios
           ELSE /\ scenarios' = (scenarios \ scenario) \cup {Updated(sc) : sc \in scenario}
                /\ last' = Reply(200)
        /\ UNCHANGED <<projects, groups, cards, worldviews, worldview_groups,
                       worldview_cards, relationships, relationship_phases, plot_points,
                       manuscript_blocks, foreign_keys, in_flight, clock>>

\* Bodies of update_plot_point requests (PlotPointBase): title is required.
UpdatePlotPointInputs ==
    {[set |-> fields, title |-> "t2", content |-> "b", scene_draft |-> "s"] :
        fields \in {{"title"}, {"title", "content"}, {"title", "content", "scene_draft"}}}

\* PUT /projects/{project_id}/scenarios/plot_points/{plot_point_id}
update_plot_point(project_id, plot_point_id, plot_point_data, x_project_password) ==
    LET access == get_project_if_accessible(project_id, x_project_password)
        plot_point == {pp \in plot_points :
                          /\ pp.id = plot_point_id
                          /\ \E sc \in scenarios : sc.id = pp.scenario_id
                                                   /\ sc.project_id = project_id}
        Reply(status) == Response("update_plot_point", status, project_id,
                                  x_project_password, plot_point_id, <<>>)
        Updated(pp) ==
            [pp EXCEPT !.title = plot_point_data.title,
                       !.content = Given(plot_point_data, "content"),
                       !.scene_draft = Given(plot_point_data, "scene_draft")]
    IN  /\ IF access # 200
           THEN /\ last' = Reply(access)
                /\ UNCHANGED plot_points
           ELSE IF plot_point = {}
           THEN /\ last' = Reply(404)
                /\ UNCHANGED plot_points
           ELSE /\ plot_points' = (plot_points \ plot_point)
                                  \cup {Updated(pp) : pp \in plot_point}
                /\ last' = Reply(200)
        /\ UNCHANGED <<projects, groups, cards, worldviews, worldview_groups,
                       worldview_cards, relationships, relationship_phases, scenarios,
                       manuscript_blocks, foreign_keys, in_flight, clock>>

\* Bodies of update_manuscript_block requests (ManuscriptBlockUpdateRequest).
UpdateBlockInputs ==
    {[set |-> fields, title |-> "t2", content |-> "b c"] :
        fields \in {{}, {"title"}, {"content"}}}

\* PUT /projects/{project_id}/manuscript/blocks/{block_id}
update_manuscript_block(project_id, block_id, update_data, x_project_password) ==
    LET access == get_project_if_accessible(project_id, x_project_password)
        block == {b \in manuscript_blocks : b.id = block_id /\ b.project_id = project_id}
        Reply(status) == Response("update_manuscript_block", status, project_id,
                                  x_project_password, block_id, <<>>)
        Updated(b) ==
            LET titled == IF Given(update_data, "title") # None
                          THEN [b EXCEPT !.title = update_data.title] ELSE b
            IN  IF Given(update_data, "content") # None
                THEN [titled EXCEPT !.content = update_data.content,
                                    !.char_count = CharCount(update_data.content),
                                    !.word_count = BlockWordCount(update_data.content)]
                ELSE titled
    IN  /\ IF access # 200
           THEN /\ last' = Reply(access)
                /\ UNCHANGED manuscript_blocks
           ELSE IF block = {}
           THEN /\ last' = Reply(404)
                /\ UNCHANGED manuscript_blocks
           ELSE /\ manuscript_blocks' = (manuscript_blocks \ block)
                                        \cup {Updated(b) : b \in block}
                /\ last' = Reply(200)
        /\ UNCHANGED <<projects, groups, cards, worldviews, worldview_groups,
                       worldview_cards, relationships, relationship_phases, scenarios,
                       plot_points, foreign_keys, in_flight, clock>>

NextUpdate ==
    \/ clock < MaxUpdateClock /\ projects = {} /\ create_project(None)
    \/ \E g \in groups : clock < MaxUpdateClock /\ add_card_to_project(g.project_id, g.id, PlainCard, None)
    \/ \E p \in Ids(projects) : clock < MaxUpdateClock /\ create_worldview_group(p, None)
    \/ \E g \in worldview_groups : clock < MaxUpdateClock /\ create_worldview_card(g.project_id, g.id, None)
    \/ \E p \in Ids(projects), source \in IdInputs(cards), request \in RelationshipInputs :
          clock < MaxUpdateClock /\ create_relationship(p, source, source, request, None)
    \/ \E r \in relationships : clock < MaxUpdateClock /\ create_relationship_phase(r.project_id, r.id, 1, None)
    \/ \E sc \in scenarios, d \in PlotPointInputs :
          clock < MaxUpdateClock /\ create_plot_point(sc.project_id, sc.id, d, None)
    \/ \E p \in Ids(projects) : clock < MaxUpdateClock /\ import_plot_points_to_manuscript(p, None)
    \/ \E p \in Ids(projects), c \in IdInputs(cards), card_data \in UpdateCardInputs :
          update_card(p, c, card_data, None)
    \/ \E p \in Ids(projects), c \in IdInputs(worldview_cards),
          card_data \in UpdateWorldviewCardInputs :
          update_worldview_card_details(p, c, card_data, None)
    \/ \E p \in Ids(projects), r \in IdInputs(relationships),
          request \in UpdateRelationshipInputs :
          update_relationship(p, r, request, None)
    \/ \E p \in Ids(projects), r \in Ids(relationships),
          ph \in IdInputs(relationship_phases), request \in UpdateRelationshipPhaseInputs :
          update_relationship_phase(p, r, ph, request, None)
    \/ \E p \in Ids(projects), sc \in IdInputs(scenarios), scenario_data \in ScenarioInputs :
          update_scenario_details(p, sc, scenario_data, None)
    \/ \E p \in Ids(projects), pp \in IdInputs(plot_points),
          plot_point_data \in UpdatePlotPointInputs :
          update_plot_point(p, pp, plot_point_data, None)
    \/ \E p \in Ids(projects), b \in IdInputs(manuscript_blocks),
          update_data \in UpdateBlockInputs :
          update_manuscript_block(p, b, update_data, None)

SpecUpdate == Init /\ [][NextUpdate]_vars

(***************************************************************************)
(* Dense ordering                                                          *)
(***************************************************************************)

\* The orderings of rows, as a bag would hold them: dense means every value of
\* 0..N-1 is taken by exactly one row.
Dense(rows) ==
    /\ \A r \in rows : r.ordering \in 0..(Cardinality(rows) - 1)
    /\ \A r, s \in rows : r.ordering = s.ordering => r = s

CardsOf(group_id) == {c \in cards : c.group_id = group_id}

\* C1: in every group the cards' orderings are exactly 0..N-1 (no gap, no
\* duplicate), after any sequence of add / delete / move / reorder requests.
C1_CardOrderingDense == \A g \in groups : Dense(CardsOf(g.id))

PlotPointsOf(scenario_id) == {pp \in plot_points : pp.scenario_id = scenario_id}

\* C2: in every scenario the plot points' orderings are exactly 0..N-1, after
\* any sequence of create_plot_point / delete_plot_point / delete_all_plot_points
\* requests on a scenario that started empty.
C2_PlotOrderingDense == \A sc \in scenarios : Dense(PlotPointsOf(sc.id))

\* C3: whatever sequence of imports (from a densely ordered scenario), merges,
\* splits, deletes and complete reorders a project has served, the orderings
\* of its manuscript blocks are exactly 0 .. N-1.
C3_BlockOrderingDense == \A p \in projects : Dense(BlocksOfProject(p.id))

(***************************************************************************)
(* Password protection                                                     *)
(***************************************************************************)

\* The project row and every row below it.
ProjectData(project_id) ==
    LET own_groups == {g \in groups : g.project_id = project_id}
        own_worldview_groups == {g \in worldview_groups : g.project_id = project_id}
        own_scenarios == {sc \in scenarios : sc.project_id = project_id}
    IN  [project |-> {p \in projects : p.id = project_id},
         groups |-> own_groups,
         cards |-> {c \in cards : c.group_id \in Ids(own_groups)},
         worldview |-> {w \in worldviews : w.project_id = project_id},
         worldview_groups |-> own_worldview_groups,
         worldview_cards |-> {c \in worldview_cards : c.group_id \in Ids(own_worldview_groups)},
         relationships |-> {rel \in relationships : rel.project_id = project_id},
         relationship_phases |->
             {ph \in relationship_phases :
                 \E rel \in relationships :
                    rel.id = ph.relationship_id /\ rel.project_id = project_id},
         scenarios |-> own_scenarios,
         plot_points |-> {pp \in plot_points : pp.scenario_id \in Ids(own_scenarios)},
         manuscript_blocks |-> BlocksOfProject(project_id)]

\* The endpoints that answer about a protected project without its password
\* by design.
Probes == {"get_project_status", "verify_password"}

\* C4: a request that does not carry the password of a protected project is
\* not served on that project (neither addressed to it with success nor
\* listing it) and leaves the project and all rows below it as they were,
\* unless it is the status check or the password probe.
C4_PasswordProtects ==
    [][\A p \in projects :
          (/\ Truthy(p.hashed_password)
           /\ ~Verify(last'.password, p.hashed_password)
           /\ last'.op \notin Probes)
          => /\ ProjectData(p.id)' = ProjectData(p.id)
             /\ ~(last'.status < 400 /\ last'.project_id = p.id)
             /\ ~(last'.op = "get_projects" /\ p.id \in Range(last'.ids))]_vars

\* C5: the guard answers 404 for an unknown project, 403 for a protected
\* project when the password header is not sent or does not verify against
\* the hash, and lets every other request through (seen through
\* get_project_details, which is the guard followed by a read).
C5_GuardOutcome ==
    last.op = "get_project_details" =>
        LET found == {p \in projects : p.id = last.project_id}
        IN  IF found = {} THEN last.status = 404
            ELSE \A p \in found :
                    IF /\ Truthy(p.hashed_password)
                       /\ (last.password = None \/ ~Verify(last.password, p.hashed_password))
                    THEN last.status = 403
                    ELSE last.status = 200

\* C6: a password change on a protected project is served only to a request
\* carrying the current password, on an unprotected project it is served to
\* anyone, and a rejected change leaves every stored hash as it was.
C6_PasswordChangeGuarded ==
    [][last'.op = "set_or_change_password" =>
          /\ \A p \in projects :
                p.id = last'.project_id =>
                   /\ (Truthy(p.hashed_password) /\ last'.status = 200)
                         => Verify(last'.password, p.hashed_password)
                   /\ ~Truthy(p.hashed_password) => last'.status = 200
          /\ last'.status # 200 => projects' = projects]_vars

\* C6 witness: a change on a protected project was rejected.
C6_Witness ==
    /\ last.op = "set_or_change_password"
    /\ last.status = 403
    /\ \E p \in projects : p.id = last.project_id /\ Truthy(p.hashed_password)

(***************************************************************************)
(* Project scoping                                                         *)
(***************************************************************************)

\* C7: a request addressed to one project leaves every other project and
\* the rows below it as they were, and a served move_card has put the card
\* into a group of the project the request was addressed to.
C7_ScopedToProject ==
    [][/\ \A q \in projects :
             q.id # last'.project_id => ProjectData(q.id)' = ProjectData(q.id)
       /\ (last'.op = "move_card" /\ last'.status < 400)
             => \E g \in groups :
                   g.id = last'.ids[1] /\ g.project_id = last'.project_id]_vars

(***************************************************************************)
(* Explicit reorder                                                        *)
(***************************************************************************)

ReorderOps ==
    {"update_card_order", "update_worldview_card_order", "update_manuscript_block_order"}

\* The table a reorder endpoint writes to.
TableOf(op) ==
    CASE op = "update_card_order" -> cards
      [] op = "update_worldview_card_order" -> worldview_cards
      [] op = "update_manuscript_block_order" -> manuscript_blocks

\* The sibling scope a reorder request addresses: the cards of the group, the
\* worldview cards of the worldview group, the blocks of the project.
ScopeRows(op, project_id, scope_id) ==
    CASE op = "update_card_order" -> CardsOf(scope_id)
      [] op = "update_worldview_card_order" -> WorldviewCardsOf(scope_id)
      [] op = "update_manuscript_block_order" -> BlocksOfProject(project_id)

ScopeIds == Ids(projects) \cup Ids(groups) \cup Ids(worldview_groups)

\* The step is a served reorder request op on scope (project_id, scope_id).
Reordered(op, project_id, scope_id) ==
    /\ last'.op = op
    /\ last'.status < 400
    /\ last'.project_id = project_id
    /\ last'.id = scope_id

\* C8: a served reorder request leaves every row outside the addressed scope
\* as it was, also a row whose id is in the list.
C8_ReorderStaysInScope ==
    [][\A op \in ReorderOps, p \in Ids(projects), sid \in ScopeIds :
          Reordered(op, p, sid)
             => \A r \in TableOf(op) \ ScopeRows(op, p, sid) : r \in TableOf(op)']_vars

\* C9: a served reorder request whose list is a permutation of the ids of the
\* addressed scope leaves each row of the scope with its position in the
\* list (from 0) as ordering.
C9_PermutationSetsPositions ==
    [][\A op \in ReorderOps, p \in Ids(projects), sid \in ScopeIds :
          (/\ Reordered(op, p, sid)
           /\ Len(last'.ids) = Cardinality(ScopeRows(op, p, sid))
           /\ Range(last'.ids) = Ids(ScopeRows(op, p, sid)))
             => /\ Ids(ScopeRows(op, p, sid)') = Range(last'.ids)
                /\ \A i \in 1..Len(last'.ids) :
                      \A r \in ScopeRows(op, p, sid)' :
                         r.id = last'.ids[i] => r.ordering = i - 1]_vars

\* C9 witness: [c3, c1, c2] was served on a group of three cards that were
\* created in the order c1, c2, c3, and the cards are now ordered c3, c1, c2.
C9_Witness ==
    /\ last.op = "update_card_order"
    /\ last.status = 200
    /\ last.ids = <<"card-4", "card-2", "card-3">>
    /\ Ids(CardsOf(last.id)) = Range(last.ids)
    /\ \A c \in CardsOf(last.id) :
          c.ordering = (CHOOSE i \in 1..3 : last.ids[i] = c.id) - 1

\* C10: a served reorder request whose list names some but not all ids of the
\* addressed scope leaves each listed row with its position in the list, and
\* every row of the scope that is not listed with an ordering greater than
\* that of every listed row.
C10_OmittedGoLast ==
    [][\A op \in ReorderOps, p \in Ids(projects), sid \in ScopeIds :
          (/\ Reordered(op, p, sid)
           /\ Range(last'.ids) \subseteq Ids(ScopeRows(op, p, sid))
           /\ Range(last'.ids) # Ids(ScopeRows(op, p, sid)))
             => /\ \A i \in 1..Len(last'.ids) :
                      \A r \in ScopeRows(op, p, sid)' :
                         r.id = last'.ids[i] => r.ordering = i - 1
                /\ \A r, listed \in ScopeRows(op, p, sid)' :
                      (r.id \notin Range(last'.ids) /\ listed.id \in Range(last'.ids))
                         => r.ordering > listed.ordering]_vars

(***************************************************************************)
(* Delete and renumber                                                     *)
(***************************************************************************)

DeleteOps == {"delete_plot_point", "delete_worldview_card", "delete_manuscript_block"}

\* The table a deleting endpoint writes to.
DeleteTable(op) ==
    CASE op = "delete_plot_point" -> plot_points
      [] op = "delete_worldview_card" -> worldview_cards
      [] op = "delete_manuscript_block" -> manuscript_blocks

\* The rows of table that are renumbered when row is deleted: the plot points
\* of its scenario, the worldview cards of its group, the blocks of its project.
Siblings(op, table, row) ==
    CASE op = "delete_plot_point" -> {r \in table : r.scenario_id = row.scenario_id}
      [] op = "delete_worldview_card" -> {r \in table : r.group_id = row.group_id}
      [] op = "delete_manuscript_block" -> {r \in table : r.project_id = row.project_id}

AllTables ==
    <<projects, groups, cards, worldviews, worldview_groups, worldview_cards,
      relationships, relationship_phases, scenarios, plot_points,
      manuscript_blocks>>

\* C11: a served delete_plot_point, delete_worldview_card or
\* delete_manuscript_block removes the addressed row and, in the same step,
\* leaves its former siblings numbered 0..N-2 in their prior relative order
\* and every other row as it was; a rejected one changes no table.
C11_DeleteRenumbersAtomically ==
    [][\A op \in DeleteOps :
          last'.op = op =>
             IF last'.status >= 400 THEN AllTables' = AllTables
             ELSE \A row \in DeleteTable(op) :
                     row.id = last'.id =>
                        LET before == Siblings(op, DeleteTable(op), row) \ {row}
                            after == Siblings(op, DeleteTable(op)', row)
                        IN  /\ row.id \notin Ids(DeleteTable(op)')
                            /\ Ids(after) = Ids(before)
                            /\ Dense(after)
                            /\ \A r, t \in before : \A r2, t2 \in after :
                                  (r2.id = r.id /\ t2.id = t.id /\ r.ordering < t.ordering)
                                     => r2.ordering < t2.ordering
                            /\ DeleteTable(op) \ Siblings(op, DeleteTable(op), row)
                                  = DeleteTable(op)' \ after]_vars

\* C11 witness: the middle one of three plot points was deleted and the last
\* one moved up to ordering 1.
C11_Witness ==
    /\ last.op = "delete_plot_point"
    /\ last.status = 200
    /\ last.id = "plot-2_1"
    /\ \E pp \in plot_points : pp.id = "plot-2_2" /\ pp.ordering = 1
    /\ \E pp \in plot_points : pp.id = "plot-2_0" /\ pp.ordering = 0

(***************************************************************************)
(* Project deletion                                                        *)
(***************************************************************************)

\* C12: a served delete_project removes the project row and every row that
\* was below the project (group, card, worldview, worldview group and card,
\* relationship and phase, scenario, plot point, manuscript block), and
\* leaves every other project and the rows below it as they were.
C12_DeleteProjectCascades ==
    [][\A p \in projects :
          (last'.op = "delete_project" /\ last'.status < 400 /\ last'.project_id = p.id)
             => /\ ProjectData(p.id).project \cap projects' = {}
                /\ ProjectData(p.id).groups \cap groups' = {}
                /\ ProjectData(p.id).cards \cap cards' = {}
                /\ ProjectData(p.id).worldview \cap worldviews' = {}
                /\ ProjectData(p.id).worldview_groups \cap worldview_groups' = {}
                /\ ProjectData(p.id).worldview_cards \cap worldview_cards' = {}
                /\ ProjectData(p.id).relationships \cap relationships' = {}
                /\ ProjectData(p.id).relationship_phases \cap relationship_phases' = {}
                /\ ProjectData(p.id).scenarios \cap scenarios' = {}
                /\ ProjectData(p.id).plot_points \cap plot_points' = {}
                /\ ProjectData(p.id).manuscript_blocks \cap manuscript_blocks' = {}
                /\ \A q \in projects :
                      q.id # p.id => ProjectData(q.id)' = ProjectData(q.id)]_vars

\* C12 witness: the first project was deleted after a relationship between
\* two of its cards had been stored, and the store is empty again.
C12_Witness ==
    /\ last.op = "delete_project"
    /\ last.status = 200
    /\ last.project_id = "project-1"
    /\ clock = MaxClock
    /\ projects = {} /\ groups = {} /\ cards = {} /\ relationships = {}
    /\ worldviews = {} /\ scenarios = {}

UncategorizedGroupsOf(project_id) ==
    {g \in groups : g.project_id = project_id /\ g.name = UNCATEGORIZED}

\* C13: every project has exactly one character group named "uncategorized",
\* after any sequence of create_project, create_sample_project, create_group
\* (with any name) and delete_group requests.
C13_OneUncategorizedGroup ==
    \A p \in projects : Cardinality(UncategorizedGroupsOf(p.id)) = 1

\* C14: a create_project request adds, in its one step, the project, exactly
\* one group named "uncategorized" holding no card, one worldview whose
\* logline, genre and rules are empty and exactly one scenario titled
\* "main scenario" holding no plot point, and nothing else; the project's
\* password hash is set exactly when the request carried a non-empty password.
C14_CreateProjectDefaults ==
    [][last'.op = "create_project" =>
         LET new_project_id == last'.project_id
             new_projects == projects' \ projects
             new_groups == groups' \ groups
             new_worldviews == worldviews' \ worldviews
             new_scenarios == scenarios' \ scenarios
         IN  /\ new_project_id \notin Ids(projects)
             /\ projects \subseteq projects' /\ groups \subseteq groups'
             /\ worldviews \subseteq worldviews' /\ scenarios \subseteq scenarios'
             /\ Cardinality(new_projects) = 1
             /\ \A p \in new_projects :
                   /\ p.id = new_project_id
                   /\ (p.hashed_password # None)
                          <=> (last'.password # None /\ last'.password # "")
                   /\ p.hashed_password # None
                          => Verify(last'.password, p.hashed_password)
             /\ Cardinality(new_groups) = 1
             /\ \A g \in new_groups :
                   /\ g.project_id = new_project_id
                   /\ g.name = UNCATEGORIZED
                   /\ \A c \in cards' : c.group_id # g.id
             /\ new_worldviews =
                    {[project_id |-> new_project_id,
                      content |-> [logline |-> "", genre |-> "", rules |-> <<>>]]}
             /\ Cardinality(new_scenarios) = 1
             /\ \A sc \in new_scenarios :
                   /\ sc.project_id = new_project_id
                   /\ sc.title = MAIN_SCENARIO
                   /\ \A pp \in plot_points' : pp.scenario_id # sc.id
             /\ UNCHANGED <<cards, worldview_groups, worldview_cards, relationships,
                            relationship_phases, plot_points, manuscript_blocks>>
      ]_vars

\* A project just created with the empty password beside one created with a
\* password: the first has no hash, the second has one.
C14_Witness ==
    /\ last.op = "create_project" /\ last.password = ""
    /\ \E p, q \in projects :
          /\ p.id = last.project_id /\ p.hashed_password = None
          /\ q.hashed_password = Hash("pw")
    /\ \E g \in groups : g.project_id = last.project_id
    /\ \E sc \in scenarios : sc.project_id = last.project_id

ScenariosOf(project_id) == {sc \in scenarios : sc.project_id = project_id}

\* C15: no project ever has more than one scenario, and a project has exactly
\* one once it was created by create_project or create_sample_project or was
\* read by get_project_details, also when two get_project_details requests
\* run at once on a project that has none.
C15_OneScenario ==
    \A p \in projects :
        /\ Cardinality(ScenariosOf(p.id)) <= 1
        /\ (p # LegacyProject
            \/ (last.op = "get_project_details" /\ last.status = 200
                /\ last.project_id = p.id))
               => Cardinality(ScenariosOf(p.id)) = 1

\* C16: a goal written as a list by add_card_to_project, update_card or
\* create_sample_project is the list the project assembly returns for the
\* card afterwards, for every list, the empty one included.
C16_ListRoundTrip ==
    [][/\ \A g \in groups, card \in CardInputs :
             (add_card_to_project(g.project_id, g.id, card, None)
              /\ last'.status = 200)
                 => \E c \in cards' : /\ c.id = last'.id
                                      /\ AssembledList(c.goal) = card.goal
       /\ \A p \in Ids(projects), id \in Ids(cards), card_data \in UpdateCardInputs :
             (update_card(p, id, card_data, None) /\ last'.status = 200
              /\ "goal" \in card_data.set)
                 => \E c \in cards' : /\ c.id = id
                                      /\ AssembledList(c.goal) = card_data.goal
       /\ \A sample_data \in SamplePayloads :
             (create_sample_project(sample_data) /\ last'.status = 200)
                 => \A i \in 1..Len(sample_data.groups) :
                      \A j \in 1..Len(sample_data.groups[i].cards) :
                         \E c \in cards' :
                            /\ c.id = SampleId("card-", clock + 1,
                                               CardsBefore(sample_data.groups, i) + j - 1)
                            /\ AssembledList(c.goal) = sample_data.groups[i].cards[j].goal
      ]_vars

\* The row of this id has, after the step, the value it had before in each of
\* the fields.
Kept(before, after, id, fields) ==
    \A r \in before : r.id = id =>
        \E t \in after : t.id = id /\ \A f \in fields : t[f] = r[f]

\* C17: an update request (update_card, update_worldview_card_details,
\* update_relationship, update_relationship_phase, update_scenario_details,
\* update_plot_point, update_manuscript_block) that is served leaves every field
\* its body omits at the value stored before.
C17_OmittedFieldsKept ==
    [][/\ \A p \in Ids(projects), id \in Ids(cards), card_data \in UpdateCardInputs :
             (update_card(p, id, card_data, None) /\ last'.status = 200)
                 => Kept(cards, cards', id,
                         {"name", "description", "goal"} \ card_data.set)
       /\ \A p \in Ids(projects), id \in Ids(worldview_cards),
             card_data \in UpdateWorldviewCardInputs :
             (update_worldview_card_details(p, id, card_data, None)
              /\ last'.status = 200)
                 => Kept(worldview_cards, worldview_cards', id,
                         {"title", "content"} \ card_data.set)
       /\ \A p \in Ids(projects), id \in Ids(relationships),
             request \in UpdateRelationshipInputs :
             (update_relationship(p, id, request, None) /\ last'.status = 200)
                 => Kept(relationships, relationships', id,
                         {"type", "description", "phase_order"} \ request.set)
       /\ \A p \in Ids(projects), r \in Ids(relationships),
             id \in Ids(relationship_phases), request \in UpdateRelationshipPhaseInputs :
             (update_relationship_phase(p, r, id, request, None) /\ last'.status = 200)
                 => Kept(relationship_phases, relationship_phases', id,
                         {"phase_order", "type", "description"} \ request.set)
       /\ \A p \in Ids(projects), id \in Ids(scenarios), scenario_data \in ScenarioInputs :
             (update_scenario_details(p, id, scenario_data, None) /\ last'.status = 200)
                 => Kept(scenarios, scenarios', id,
                         {"title", "summary", "themes"} \ scenario_data.set)
       /\ \A p \in Ids(projects), id \in Ids(plot_points),
             plot_point_data \in UpdatePlotPointInputs :
             (update_plot_point(p, id, plot_point_data, None) /\ last'.status = 200)
                 => Kept(plot_points, plot_points', id,
                         {"title", "content", "scene_draft"} \ plot_point_data.set)
       /\ \A p \in Ids(projects), id \in Ids(manuscript_blocks),
             update_data \in UpdateBlockInputs :
             (update_manuscript_block(p, id, update_data, None) /\ last'.status = 200)
                 => Kept(manuscript_blocks, manuscript_blocks', id,
                         {"title", "content"} \ update_data.set)
      ]_vars

\* The cards of a sample payload, group after group.
PayloadCards(sample_data) ==
    UNION {Range(sample_data.groups[i].cards) : i \in 1..Len(sample_data.groups)}

\* The relationships of a sample payload whose two endpoints are ids of cards
\* of the payload.
Resolvable(sample_data) ==
    {r \in Range(sample_data.relationships) :
        {r.source_character_id, r.target_character_id}
            \subseteq Ids(PayloadCards(sample_data))}

C19_SampleAllOrNothing ==
    [][\A sample_data \in SamplePayloads :
          create_sample_project(sample_data) =>
              IF last'.status = 200
              THEN /\ last'.project_id \in Ids(projects')
                   /\ \E w \in worldviews' : w.project_id = last'.project_id
                   /\ \E sc \in scenarios' : sc.project_id = last'.project_id
                   /\ Cardinality(groups' \ groups) = Len(sample_data.groups)
              ELSE UNCHANGED <<projects, groups, cards, worldviews, worldview_groups,
                               worldview_cards, relationships, relationship_phases,
                               scenarios, plot_points, manuscript_blocks>>
      ]_vars

\* The payload with two plot points of ordering 0 was refused, after another
\* sample was stored: the refused project is not in the store.
C19_Witness ==
    /\ last.op = "create_sample_project" /\ last.status = 500
    /\ last.project_id \notin Ids(projects)
    /\ projects # {}

(***************************************************************************)
(* Project assembly                                                        *)
(***************************************************************************)

\* Orders in which a SELECT without ORDER BY can return rows: every assignment
\* of the positions 0..N-1 to the rows' ids.
StoreOrders(rows) ==
    {f \in [Ids(rows) -> 0..(Cardinality(rows) - 1)] :
        \A r, t \in rows : f[r.id] = f[t.id] => r = t}

GroupsOf(project_id) == {g \in groups : g.project_id = project_id}

\* Positions of a project's groups in the assembly: the loop over
\* project_orm.groups appends them as the collection holds them, which is as
\* the store returned them.
AssembledGroupPositions(project_id) == StoreOrders(GroupsOf(project_id))

\* Positions of a group's cards in the assembly:
\* sorted(group_orm.cards, key=lambda c: (c.ordering is None, c.ordering)).
AssembledCardPositions(group_id) == Rankings(CardsOf(group_id))

\* Positions of a scenario's plot points in the assembly, sorted alike.
AssembledPlotPositions(scenario_id) == Rankings(PlotPointsOf(scenario_id))

\* Positions of a project's manuscript blocks in the assembly:
\* sorted(manuscript_blocks_list, key=lambda mb: mb.get("ordering", 0)).
AssembledBlockPositions(project_id) == Rankings(BlocksOfProject(project_id))

\* Names a client gives character groups while the assembly is read.
AssemblyGroupNames == {"allies", "heroes"}

NextAssembly ==
    \/ create_project(None)
    \/ \E p \in Ids(projects), name \in AssemblyGroupNames : create_group(p, name, None)
    \/ \E g \in groups : add_card_to_project(g.project_id, g.id, PlainCard, None)
    \/ \E sc \in scenarios, d \in PlotPointInputs :
          create_plot_point(sc.project_id, sc.id, d, None)
    \/ \E p \in Ids(projects) : import_plot_points_to_manuscript(p, None)
    \/ \E p \in IdInputs(projects) : get_project_details(p, None)

SpecAssembly == Init /\ [][NextAssembly]_vars

\* Place of a group name in the alphabet.
Alphabetical(name) ==
    CASE name = "allies" -> 0
      [] name = "heroes" -> 1
      [] OTHER -> 2

\* The order C20 names for groups: "uncategorized" after every other name, the
\* other names alphabetically.
SortsBefore(a, b) ==
    /\ a # UNCATEGORIZED
    /\ b = UNCATEGORIZED \/ Alphabetical(a) < Alphabetical(b)

\* Rows of lower ordering come at lower positions.
ByOrdering(rows, positions) ==
    \A r, t \in rows : r.ordering < t.ordering => positions[r.id] < positions[t.id]

\* C20: in the assembly get_project_details returns, whatever order the store
\* returns the rows in, the project's groups come with "uncategorized" last and
\* the others alphabetically by name, the cards of each group by ordering, the
\* plot points of each scenario by ordering and the manuscript blocks by
\* ordering.
C20_AssemblySorted ==
    (last.op = "get_project_details" /\ last.status = 200) =>
        /\ \A positions \in AssembledGroupPositions(last.project_id) :
              \A g, h \in GroupsOf(last.project_id) :
                 SortsBefore(g.name, h.name) => positions[g.id] < positions[h.id]
        /\ \A g \in GroupsOf(last.project_id) :
              \A positions \in AssembledCardPositions(g.id) :
                 ByOrdering(CardsOf(g.id), positions)
        /\ \A sc \in ScenariosOf(last.project_id) :
              \A positions \in AssembledPlotPositions(sc.id) :
                 ByOrdering(PlotPointsOf(sc.id), positions)
        /\ \A positions \in AssembledBlockPositions(last.project_id) :
              ByOrdering(BlocksOfProject(last.project_id), positions)

(***************************************************************************)
(* Block counters                                                          *)
(***************************************************************************)

\* POST /projects/{project_id}/manuscript/blocks/{block_id}/import-from-plot/{plot_id}
\* The plot point is looked up in project.scenarios[0]; for a project without
\* a scenario the filter is built from None and the query raises.
import_block_from_plot(project_id, block_id, plot_id, x_project_password) ==
    LET access == get_project_if_accessible(project_id, x_project_password)
        block == {b \in BlocksOfProject(project_id) : b.id = block_id}
        Reply(status) == Response("import_block_from_plot", status, project_id,
                                  x_project_password, block_id, <<plot_id>>)
    IN  /\ IF access # 200
           THEN /\ last' = Reply(access)
                /\ UNCHANGED manuscript_blocks
           ELSE IF block = {}
           THEN /\ last' = Reply(404)
                /\ UNCHANGED manuscript_blocks
           ELSE IF ScenariosOf(project_id) = {}
           THEN /\ last' = Reply(500)
                /\ UNCHANGED manuscript_blocks
           ELSE \E scenario \in ScenariosOf(project_id) :
                LET plot == {pp \in plot_points :
                                pp.id = plot_id /\ pp.scenario_id = scenario.id}
                    content(pp) == Or(Or(pp.scene_draft, pp.content), "")
                IN  IF plot = {}
                    THEN /\ last' = Reply(404)
                         /\ UNCHANGED manuscript_blocks
                    ELSE /\ manuscript_blocks' =
                              (manuscript_blocks \ block)
                                  \cup {[b EXCEPT !.title = pp.title,
                                                  !.content = content(pp),
                                                  !.char_count = CharCount(content(pp)),
                                                  !.word_count = BlockWordCount(content(pp))]
                                        : b \in block, pp \in plot}
                         /\ last' = Reply(200)
        /\ UNCHANGED <<projects, groups, cards, worldviews, worldview_groups,
                       worldview_cards, relationships, relationship_phases, scenarios,
                       plot_points, foreign_keys, in_flight, clock>>

\* Bodies of update_manuscript_block requests whose content has leading,
\* doubled and trailing spaces, or is empty.
BlockContentInputs ==
    {[set |-> {"content"}, title |-> "t", content |-> c] : c \in {"", " a  b "}}
        \cup {[set |-> {"title"}, title |-> "t", content |-> ""]}

NextCounts ==
    \/ projects = {} /\ create_project(None)
    \/ \E sc \in scenarios :
          \E ai \in {r \in AIResults : /\ r.kind = "json"
                                       /\ Len(r.plot_points) = 2
                                       /\ \A pp \in Range(r.plot_points) : pp.title # None} :
             generate_scenario_draft_with_ai(sc.project_id, sc.id, ai, None)
    \/ \E p \in Ids(projects) : import_plot_points_to_manuscript(p, None)
    \/ \E p \in Ids(projects), b \in IdInputs(manuscript_blocks),
          update_data \in BlockContentInputs :
          update_manuscript_block(p, b, update_data, None)
    \/ \E p \in Ids(projects), block_ids \in CompleteLists(Ids(manuscript_blocks)) :
          merge_manuscript_blocks(p, block_ids, None, None)
    \/ \E p \in Ids(projects), b \in Ids(manuscript_blocks),
          split_position \in {0, 2, MaxSplitPosition} :
          split_manuscript_block(p, b, split_position, None)
    \/ \E p \in Ids(projects), b \in IdInputs(manuscript_blocks),
          pp \in IdInputs(plot_points) :
          import_block_from_plot(p, b, pp, None)

SpecCounts == Init /\ [][NextCounts]_vars

\* The number of whitespace-separated words of a text: the places where a
\* word ends.
WordsOf(content) ==
    Cardinality({i \in 1..Len(content) :
                    /\ ~IsSpace(SubSeq(content, i, i))
                    /\ (i = Len(content) \/ IsSpace(SubSeq(content, i + 1, i + 1)))})

CountersMatch(block) ==
    /\ block.char_count = Len(block.content)
    /\ block.word_count = WordsOf(block.content)

\* C21: after every request, each manuscript block's char_count is the length
\* of its content and its word_count the number of whitespace-separated words
\* of it (import_plot_points_to_manuscript, update_manuscript_block with a
\* content, merge_manuscript_blocks, split_manuscript_block and
\* import_block_from_plot set the content), and an update_manuscript_block
\* request without a content leaves both counters as they were.
C21_CountersFollowContent ==
    [][/\ \A b \in manuscript_blocks' : CountersMatch(b)
       /\ \A p \in Ids(projects), id \in Ids(manuscript_blocks),
             update_data \in {d \in BlockContentInputs : "content" \notin d.set} :
             (update_manuscript_block(p, id, update_data, None) /\ last'.status = 200)
                 => Kept(manuscript_blocks, manuscript_blocks', id,
                         {"content", "char_count", "word_count"})
      ]_vars

\* A block was given a content with leading, doubled and trailing spaces:
\* six characters, two words.
C21_Witness ==
    /\ last.op = "update_manuscript_block" /\ last.status = 200
    /\ \E b \in manuscript_blocks :
          /\ b.id = last.id
          /\ b.content = " a  b "
          /\ b.char_count = 6
          /\ b.word_count = 2


(***************************************************************************)
(* Concurrent reorders.  update_card_order is a plain def, so two requests *)
(* run on two threads, each with its own session (SessionLocal,            *)
(* autocommit=False): the UPDATE statements of one request form one        *)
(* transaction that ends at db.commit().  A transaction of this section is *)
(* a record of in_flight: its card_ids, the number of UPDATE statements it *)
(* has executed (index), the row versions it replaced (undo), its phase    *)
(* and, once committed, its place in the order of commits.  cards holds    *)
(* the newest version of every row; a version written by an open           *)
(* transaction is locked until that transaction ends.                      *)
(***************************************************************************)

\* The transactions that have executed an UPDATE and not ended yet.
Writers ==
    {t \in in_flight : t.phase = "updating" /\ t.undo # {}}

\* A transaction that takes no lock and waits for none.
NeverBlocked(t, card_id) == FALSE

\* The next UPDATE of transaction t has to wait: on PostgreSQL the row it names
\* carries the lock of another open transaction, on SQLite another open
\* transaction holds the write lock of the database file.
Blocked(t, card_id) ==
    \E u \in Writers \ {t} : foreign_keys => card_id \in Ids(u.undo)

\* The handler up to its loop: the group lookup and the 404.
update_card_order_begin(request, project_id, group_id, card_ids) ==
    LET group == {g \in groups : g.id = group_id /\ g.project_id = project_id}
    IN  /\ \A q \in in_flight : q.request # request
        /\ IF group = {}
           THEN /\ last' = Response("update_card_order", 404, project_id, None,
                                    group_id, card_ids)
                /\ UNCHANGED in_flight
           ELSE /\ in_flight' = in_flight \cup
                       {[request |-> request, project_id |-> project_id,
                         group_id |-> group_id, card_ids |-> card_ids,
                         index |-> 0, undo |-> {}, phase |-> "updating",
                         overlaps |-> {q.request : q \in {u \in in_flight :
                                                          u.phase = "updating"}},
                         commit_order |-> 0]}
                /\ UNCHANGED last
        /\ UNCHANGED <<projects, groups, cards, worldviews, worldview_groups,
                       worldview_cards, relationships, relationship_phases,
                       scenarios, plot_points, manuscript_blocks, foreign_keys, clock>>

\* One turn of the loop: UPDATE cards SET ordering = index WHERE id = card_id
\* AND group_id = group_id, executed in the transaction of the request.
update_card_order_update(request) ==
    \E t \in in_flight :
        /\ t.request = request /\ t.phase = "updating" /\ t.index < Len(t.card_ids)
        /\ LET card_id == t.card_ids[t.index + 1]
               matched == {c \in cards : c.id = card_id /\ c.group_id = t.group_id}
               first_versions == {c \in matched : c.id \notin Ids(t.undo)}
           IN  /\ ~Blocked(t, card_id)
               /\ cards' = {IF c \in matched THEN [c EXCEPT !.ordering = t.index] ELSE c :
                               c \in cards}
               /\ in_flight' = (in_flight \ {t}) \cup
                      {[t EXCEPT !.index = t.index + 1,
                                 !.undo = t.undo \cup first_versions]}
        /\ UNCHANGED <<projects, groups, worldviews, worldview_groups, worldview_cards,
                       relationships, relationship_phases, scenarios, plot_points,
                       manuscript_blocks, foreign_keys, clock, last>>

\* db.commit() after the loop and the 200 response.
update_card_order_commit(request) ==
    \E t \in in_flight :
        /\ t.request = request /\ t.phase = "updating" /\ t.index = Len(t.card_ids)
        /\ in_flight' = (in_flight \ {t}) \cup
               {[t EXCEPT !.phase = "committed", !.undo = {},
                          !.commit_order =
                              1 + Cardinality({u \in in_flight : u.phase = "committed"})]}
        /\ last' = Response("update_card_order", 200, t.project_id, None,
                            t.group_id, t.card_ids)
        /\ UNCHANGED <<projects, groups, cards, worldviews, worldview_groups,
                       worldview_cards, relationships, relationship_phases,
                       scenarios, plot_points, manuscript_blocks, foreign_keys, clock>>

\* An UPDATE that raises instead of waiting for ever: SQLite gives the lock up
\* after its busy timeout ("database is locked"), PostgreSQL ends a deadlock by
\* aborting one of the two transactions.  The exception leaves the handler;
\* get_db closes the session, which rolls the transaction back.
update_card_order_fail(request) ==
    \E t \in in_flight :
        /\ t.request = request /\ t.phase = "updating" /\ t.index < Len(t.card_ids)
        /\ Blocked(t, t.card_ids[t.index + 1])
        /\ foreign_keys =>
              \E u \in Writers \ {t} :
                 /\ u.index < Len(u.card_ids)
                 /\ u.card_ids[u.index + 1] \in Ids(t.undo)
        /\ cards' = {c \in cards : c.id \notin Ids(t.undo)} \cup t.undo
        /\ in_flight' = (in_flight \ {t}) \cup {[t EXCEPT !.phase = "failed", !.undo = {}]}
        /\ last' = Response("update_card_order", 500, t.project_id, None,
                            t.group_id, t.card_ids)
        /\ UNCHANGED <<projects, groups, worldviews, worldview_groups, worldview_cards,
                       relationships, relationship_phases, scenarios, plot_points,
                       manuscript_blocks, foreign_keys, clock>>

NextConcurrentOrder ==
    \/ projects = {} /\ create_project(None)
    \/ \E p \in Ids(projects), g \in Ids(groups) :
          in_flight = {} /\ add_card_to_project(p, g, PlainCard, None)
    \/ \E request \in Requests, p \in Ids(projects), g \in Ids(groups) :
          \E card_ids \in CompleteLists(CardOrderScope(g)) :
             update_card_order_begin(request, p, g, card_ids)
    \/ \E request \in Requests : update_card_order_update(request)
    \/ \E request \in Requests : update_card_order_commit(request)
    \/ \E request \in Requests : update_card_order_fail(request)

SpecConcurrentOrder == Init /\ [][NextConcurrentOrder]_vars

\* The rows of a scope carry the orderings a request asked for: the row
\* named at place i of card_ids has ordering i - 1.
FollowsList(rows, card_ids) ==
    \A i \in 1..Len(card_ids) : \A c \in rows : c.id = card_ids[i] => c.ordering = i - 1

\* C22: when two reorder requests with complete id lists of the same group
\* have both committed, however their statements were interleaved, the cards
\* of the group carry exactly the orderings of the request that committed
\* last: dense 0..N-1 in the order of its list, never a mixture of the two.
C22_LastCommitWins ==
    \A t, u \in in_flight :
        (/\ t.phase = "committed" /\ u.phase = "committed"
         /\ t.group_id = u.group_id
         /\ t.commit_order < u.commit_order)
        => /\ FollowsList(CardsOf(u.group_id), u.card_ids)
           /\ Dense(CardsOf(u.group_id))

C22_Witness ==
    \E t, u \in in_flight :
        /\ t.phase = "committed" /\ u.phase = "committed"
        /\ t.commit_order < u.commit_order
        /\ t.card_ids # u.card_ids
        /\ Len(u.card_ids) = 3
        /\ t.overlaps \cup u.overlaps # {}
        /\ FollowsList(CardsOf(u.group_id), u.card_ids)


(***************************************************************************)
(* The AI wrapper (utils/ai_utils.py).  A non-streaming call_ai_model is a *)
(* coroutine; its frame is a record of in_flight: the arguments, the loop  *)
(* variable attempt, retry_delay, the provider calls made so far with the  *)
(* way each ended (outcomes), the delays slept, and, once the coroutine    *)
(* has returned or raised, the result or the HTTP error.                   *)
(***************************************************************************)

\* Largest max_retries a caller passes.
MaxRetries == 3

\* A test that finds nothing.
NeverContains(text, sub) == FALSE

\* "sub in text"
Contains(text, sub) ==
    \E i \in 1..(Len(text) - Len(sub) + 1) : SubSeq(text, i, i + Len(sub) - 1) = sub

\* str.removeprefix / str.removesuffix
RemovePrefix(text, prefix) ==
    IF Len(text) >= Len(prefix) /\ SubSeq(text, 1, Len(prefix)) = prefix
    THEN SubSeq(text, Len(prefix) + 1, Len(text))
    ELSE text

RemoveSuffix(text, suffix) ==
    IF Len(text) >= Len(suffix)
          /\ SubSeq(text, Len(text) - Len(suffix) + 1, Len(text)) = suffix
    THEN SubSeq(text, 1, Len(text) - Len(suffix))
    ELSE text

\* json.loads on the documents the model's provider writes: the number 1, the
\* empty object, and lists nested around them, with white space between the
\* tokens.  ok is FALSE where json.loads raises JSONDecodeError; otherwise
\* the value is leaf wrapped in depth lists.
RECURSIVE JsonLoads(_)
JsonLoads(text) ==
    LET s == Strip(text)
        failed == [ok |-> FALSE, leaf |-> "", depth |-> 0]
    IN  IF s \in {"1", "{}"} THEN [ok |-> TRUE, leaf |-> s, depth |-> 0]
        ELSE IF Len(s) >= 2 /\ SubSeq(s, 1, 1) = "[" /\ SubSeq(s, Len(s), Len(s)) = "]"
        THEN LET inner == SubSeq(s, 2, Len(s) - 1)
                 value == JsonLoads(inner)
             IN  IF Strip(inner) = "" THEN [ok |-> TRUE, leaf |-> "[]", depth |-> 0]
                 ELSE IF value.ok THEN [value EXCEPT !.depth = value.depth + 1]
                 ELSE failed
        ELSE failed

\* The three backquotes of a Markdown code fence, written with a character
\* that can stand in a string of this module.
FENCE == "~~~"

\* raw_text.removeprefix(FENCE + "json").removesuffix(FENCE).strip()
CleanedText(raw_text) == Strip(RemoveSuffix(RemovePrefix(raw_text, FENCE \o "json"), FENCE))

_is_json_response(text) == JsonLoads(CleanedText(Strip(text))).ok

\* What a call leaves its caller with: a returned value (kind "json", "text"
\* or "none") with status 200, or an HTTPException with its status, the
\* error_code and the message of its detail.
Returned(kind, value) ==
    [status |-> 200, error_code |-> "", message |-> "", kind |-> kind, value |-> value]

Raised(status, error_code, message) ==
    [status |-> status, error_code |-> error_code, message |-> message,
     kind |-> "error", value |-> [ok |-> FALSE, leaf |-> "", depth |-> 0]]

TextValue(text) == [ok |-> TRUE, leaf |-> text, depth |-> 0]

_process_response(response, response_format) ==
    IF ~response.parts
    THEN LET finish_reason == IF response.candidates THEN response.finish_reason
                              ELSE "UNKNOWN"
         IN  IF Contains(finish_reason, "SAFETY")
             THEN Raised(400, "AI_GENERATION_FAILED", "blocked by the safety filter")
             ELSE Raised(500, "AI_GENERATION_FAILED", "no valid response")
    ELSE LET raw_text == Strip(response.text)
         IN  IF response_format = "json"
                   \/ (response_format = "auto" /\ _is_json_response(raw_text))
             THEN LET parsed == JsonLoads(CleanedText(raw_text))
                  IN  IF parsed.ok THEN Returned("json", parsed)
                      ELSE Raised(500, "AI_RESPONSE_PARSING_FAILED", "invalid JSON")
             ELSE Returned("text", TextValue(raw_text))

\* Responses of the provider: without parts (no candidate, or a candidate
\* with its finish reason) or with parts and their text.
NoText == ""

Responses ==
    {[parts |-> FALSE, candidates |-> FALSE, finish_reason |-> "", text |-> NoText]}
    \cup {[parts |-> FALSE, candidates |-> TRUE, finish_reason |-> f, text |-> NoText] :
             f \in {"SAFETY", "MAX_TOKENS", "RECITATION"}}
    \cup {[parts |-> TRUE, candidates |-> TRUE, finish_reason |-> "STOP", text |-> x] :
             x \in {"{}", " [ 1 ]\n", FENCE \o "json\n[{}]\n" \o FENCE, FENCE \o "\n{}\n" \o FENCE,
                    " once upon ", "[1", ""}}

\* A handler that catches every exception.
AnyException(exception) == TRUE

\* google_exceptions.InternalServerError, google_exceptions.ServiceUnavailable
IsTransient(exception) == exception \in {"InternalServerError", "ServiceUnavailable"}

\* How model.generate_content_async can end: an exception of the library of
\* the provider or a response.
ProviderOutcomes ==
    {[exception |-> e, response |-> CHOOSE r \in Responses : ~r.parts /\ ~r.candidates] :
        e \in {"InternalServerError", "ServiceUnavailable", "ResourceExhausted"}}
    \cup {[exception |-> None, response |-> r] : r \in Responses}

Frame(request) == {t \in in_flight : t.request = request}

Done(t) == t.phase \in {"returned", "raised"}

\* call_ai_model up to its loop: the API key check, then range(max_retries).
call_ai_model_begin(request, response_format, max_retries, retry_delay, api_key) ==
    /\ Frame(request) = {}
    /\ IF ~api_key
       THEN /\ last' = Response("call_ai_model", 500, None, None, request, <<>>)
            /\ UNCHANGED in_flight
       ELSE /\ in_flight' = in_flight \cup
                   {[request |-> request, response_format |-> response_format,
                     max_retries |-> max_retries, first_delay |-> retry_delay,
                     retry_delay |-> retry_delay, attempt |-> 0,
                     outcomes |-> <<>>, slept |-> <<>>,
                     phase |-> IF max_retries > 0 THEN "calling" ELSE "returned",
                     response |-> CHOOSE r \in Responses : ~r.parts /\ ~r.candidates,
                     outcome |-> Returned("none", TextValue(None))]}
            /\ UNCHANGED last
    /\ UNCHANGED <<projects, groups, cards, worldviews, worldview_groups,
                   worldview_cards, relationships, relationship_phases,
                   scenarios, plot_points, manuscript_blocks, foreign_keys, clock>>

\* One turn of the loop: the provider call and what follows it.
call_ai_model_attempt(request, provider) ==
    \E t \in Frame(request) :
        /\ t.phase = "calling" /\ t.attempt < t.max_retries
        /\ LET called == [t EXCEPT !.outcomes =
                                     Append(t.outcomes,
                                            IF provider.exception = None THEN "response"
                                            ELSE provider.exception),
                                   !.response = provider.response]
               processed == _process_response(provider.response, t.response_format)
               after ==
                  IF provider.exception = None
                  THEN [called EXCEPT !.outcome = processed,
                                      !.phase = IF processed.status = 200 THEN "returned"
                                                ELSE "raised"]
                  ELSE IF IsTransient(provider.exception)
                  THEN IF t.attempt < t.max_retries - 1
                       THEN [called EXCEPT !.phase = "sleeping"]
                       ELSE [called EXCEPT !.phase = "raised",
                                           !.outcome = Raised(503, "AI_GENERATION_FAILED",
                                                              "temporarily unstable")]
                  ELSE [called EXCEPT !.phase = "raised",
                                      !.outcome = Raised(500, "AI_GENERATION_FAILED",
                                                         "unexpected error")]
           IN  in_flight' = (in_flight \ {t}) \cup {after}
        /\ UNCHANGED <<projects, groups, cards, worldviews, worldview_groups,
                       worldview_cards, relationships, relationship_phases, scenarios,
                       plot_points, manuscript_blocks, foreign_keys, clock, last>>

\* await asyncio.sleep(retry_delay) is over: retry_delay *= 2 and the loop
\* goes on with the next attempt.
call_ai_model_retry(request) ==
    \E t \in Frame(request) :
        /\ t.phase = "sleeping"
        /\ in_flight' = (in_flight \ {t}) \cup
               {[t EXCEPT !.slept = Append(t.slept, t.retry_delay),
                          !.retry_delay = t.retry_delay * 2,
                          !.attempt = t.attempt + 1,
                          !.phase = "calling"]}
        /\ UNCHANGED <<projects, groups, cards, worldviews, worldview_groups,
                       worldview_cards, relationships, relationship_phases, scenarios,
                       plot_points, manuscript_blocks, foreign_keys, clock, last>>

CallAttempts ==
    \E provider \in ProviderOutcomes : call_ai_model_attempt("r1", provider)

CallRetries == call_ai_model_retry("r1")

NextAI ==
    \/ \E response_format \in {"json", "text", "auto"}, max_retries \in 0..MaxRetries,
          api_key \in BOOLEAN :
          call_ai_model_begin("r1", response_format, max_retries, 1, api_key)
    \/ CallAttempts
    \/ CallRetries

SpecAI == Init /\ [][NextAI]_vars

\* Every provider call returns or raises, and every asyncio.sleep ends.
SpecAILive == SpecAI /\ WF_vars(CallAttempts) /\ WF_vars(CallRetries)


NotJson == {" once upon ", "[1", "", FENCE \o "\n{}\n" \o FENCE}

\* C24: every provider response ends in exactly one outcome.  Without parts
\* and with a safety finish reason it is the content-blocked error (400),
\* which differs from the generic failure (500) of every other response
\* without parts.  With response_format "json" a text that is not JSON gives
\* the malformed-response error and never the raw text.  Every other response
\* gives the parsed JSON value or the stripped text.
C24_ResponseOutcomes ==
    \A t \in in_flight :
        (Done(t) /\ Len(t.outcomes) > 0 /\ t.outcomes[Len(t.outcomes)] = "response") =>
            LET r == t.response
                o == t.outcome
                blocked == ~r.parts /\ r.candidates /\ r.finish_reason = "SAFETY"
                malformed == r.parts /\ t.response_format = "json" /\ r.text \in NotJson
            IN  /\ blocked => o.status = 400 /\ o.kind = "error"
                /\ (~r.parts /\ ~blocked) => o.status = 500 /\ o.kind = "error"
                /\ malformed => /\ o.kind = "error"
                                /\ o.error_code = "AI_RESPONSE_PARSING_FAILED"
                /\ (r.parts /\ t.response_format = "json") => o.kind # "text"
                /\ (r.parts /\ ~malformed) =>
                      /\ o.status = 200
                      /\ IF r.text \in NotJson \/ t.response_format = "text"
                         THEN o.kind = "text" /\ o.value.leaf = Strip(r.text)
                         ELSE o.kind = "json" /\ o.value.ok
                              /\ o.value.leaf \in {"1", "{}"}

C24_Witness ==
    \E t \in in_flight :
        /\ t.phase = "raised" /\ t.response_format = "json"
        /\ t.outcomes = <<"response">>
        /\ t.response.text = "[1"
        /\ t.outcome.error_code = "AI_RESPONSE_PARSING_FAILED"


\* C25: generate_scenario_draft_with_ai is all or nothing.  A request that is
\* served leaves the scenario with exactly the plot points of the AI answer,
\* numbered 0..n-1 in the order of the answer; a request that fails, whatever
\* the reason, leaves every stored plot point as it was.
C25_GenerateAllOrNothing ==
    [][\A sc \in scenarios, ai \in AIResults :
          generate_scenario_draft_with_ai(sc.project_id, sc.id, ai, None) =>
             IF last'.status = 200
             THEN /\ Cardinality(PlotPointsOf(sc.id)') = Len(ai.plot_points)
                  /\ \A i \in 1..Len(ai.plot_points) :
                        \E pp \in plot_points' :
                           /\ pp.scenario_id = sc.id
                           /\ pp.ordering = i - 1
                           /\ pp.title = ai.plot_points[i].title
                           /\ pp.content = ai.plot_points[i].content
             ELSE plot_points' = plot_points]_vars


(***************************************************************************)
(* Merging, starting from an imported manuscript: a project as             *)
(* create_project writes it, whose scenario holds the plot points of one   *)
(* generated draft and whose blocks are the ones                           *)
(* import_plot_points_to_manuscript built from them.                       *)
(***************************************************************************)

\* Plot points of the draft the manuscript was imported from.
ImportedPlots == 5

DraftedPlotPoints ==
    {[id |-> NewId("plot-", 0) \o "_" \o ToString(i - 1),
      scenario_id |-> "scen-0",
      title |-> "t",
      content |-> AIPlot(i, "t").content,
      scene_draft |-> None,
      ordering |-> i - 1] : i \in 1..ImportedPlots}

InitMerge ==
    /\ projects = {[id |-> "project-0", hashed_password |-> None]}
    /\ groups = {[id |-> "group-uncategorized-0", project_id |-> "project-0",
                  name |-> UNCATEGORIZED]}
    /\ worldviews = {[project_id |-> "project-0", content |-> DefaultWorldviewContent]}
    /\ scenarios = {[id |-> "scen-0", project_id |-> "project-0",
                     title |-> MAIN_SCENARIO, summary |-> None, themes |-> JsonNull]}
    /\ plot_points = DraftedPlotPoints
    /\ manuscript_blocks = {ImportedBlock(pp, "project-0", 0) : pp \in DraftedPlotPoints}
    /\ cards = {}
    /\ worldview_groups = {}
    /\ worldview_cards = {}
    /\ relationships = {}
    /\ relationship_phases = {}
    /\ foreign_keys \in BOOLEAN
    /\ in_flight = {}
    /\ clock = 0
    /\ last = Response("start", 200, "", None, "", <<>>)

NextMerge ==
    \/ \E p \in Ids(projects), block_ids \in IdLists(Ids(manuscript_blocks)) :
          merge_manuscript_blocks(p, block_ids, None, None)
    \/ \E p \in Ids(projects), b \in IdInputs(manuscript_blocks) :
          delete_manuscript_block(p, b, None)

SpecMerge == InitMerge /\ [][NextMerge]_vars

\* C26: merge_manuscript_blocks on two or more distinct ids of blocks of the
\* project replaces them by one new block whose content is their contents
\* joined by a blank line in ordering order; the new block stands where the
\* earliest merged block stood and every other block keeps its relative
\* order.  With fewer than two ids, or an id that is no block of the
\* project, the request fails and no block changes.
C26_MergePlacement ==
    [][last'.op = "merge_manuscript_blocks" =>
          LET p == last'.project_id
              block_ids == last'.ids
              merged == {b \in BlocksOfProject(p) : b.id \in Range(block_ids)}
              others == BlocksOfProject(p) \ merged
              After(id) == {b \in manuscript_blocks' : b.id = id}
          IN  IF last'.status >= 400
              THEN manuscript_blocks' = manuscript_blocks
              ELSE /\ Len(block_ids) >= 2 /\ Cardinality(merged) = Len(block_ids)
                   /\ \A b \in merged : After(b.id) = {}
                   /\ \E new \in After(last'.id) :
                         /\ \E rank \in Rankings(merged) :
                               new.content = JoinContents(merged, rank, 0)
                         /\ \A x \in others : \E y \in After(x.id) :
                               /\ (\A b \in merged : x.ordering < b.ordering)
                                     => y.ordering < new.ordering
                               /\ (\E b \in merged : b.ordering < x.ordering)
                                     => new.ordering < y.ordering
                   /\ \A x, z \in others : \E y \in After(x.id), w \in After(z.id) :
                         x.ordering < z.ordering => y.ordering < w.ordering]_vars


\* C27: split_manuscript_block at a position p with 0 < p < len(content)
\* leaves two blocks holding the stripped text before and after p, the second
\* one immediately after the first, every other block keeping its relative
\* order.  For an empty content, p <= 0 or p >= len(content) the request
\* fails with 400 and neither the block nor any ordering changes.
C27_SplitPlacement ==
    [][\A p \in Ids(projects), id \in Ids(manuscript_blocks),
          split_position \in 0..MaxSplitPosition :
          split_manuscript_block(p, id, split_position, None) =>
             \A block \in {b \in BlocksOfProject(p) : b.id = id} :
                LET others == BlocksOfProject(p) \ {block}
                    After(i) == {b \in manuscript_blocks' : b.id = i}
                    inside == /\ Truthy(block.content)
                              /\ 0 < split_position
                              /\ split_position < Len(block.content)
                IN  IF ~inside
                    THEN last'.status = 400 /\ manuscript_blocks' = manuscript_blocks
                    ELSE /\ last'.status = 200
                         /\ \E first \in After(last'.ids[1]), second \in After(last'.ids[2]) :
                               /\ first.id = id
                               /\ first.content = Strip(SubSeq(block.content, 1, split_position))
                               /\ second.content =
                                     Strip(SubSeq(block.content, split_position + 1,
                                                  Len(block.content)))
                               /\ second.ordering = first.ordering + 1
                         /\ \A x, z \in others : \E y \in After(x.id), w \in After(z.id) :
                               x.ordering < z.ordering => y.ordering < w.ordering]_vars


\* The cards of a project: those in the groups of the project.
CardsOfProject(project_id) ==
    {c \in cards : \E g \in groups : g.id = c.group_id /\ g.project_id = project_id}

\* C28: the source and the target of every stored relationship are cards
\* that exist and belong to the project of the relationship, whatever
\* requests created and deleted relationships, cards and groups before.
C28_RelationshipEndpointsExist ==
    \A r \in relationships :
        {r.source_character_id, r.target_character_id} \subseteq Ids(CardsOfProject(r.project_id))


\* C29: once set_or_change_password has succeeded on a project with a
\* password, a request that carries that password in X-Project-Password
\* passes the guard of the project, for every string the endpoint accepts,
\* the empty string included.
C29_NewPasswordOpens ==
    [][\A project_id \in Ids(projects), password \in Passwords, header \in Headers :
          (set_or_change_password(project_id, password, header) /\ last'.status = 200)
             => get_project_if_accessible(project_id, password)' = 200]_vars


(***************************************************************************)
(* Import into a project without scenario.  The store can hold rows that   *)
(* the handlers of today do not write: get_project_details has a branch    *)
(* for a project stored without scenario, and the assembly one for blocks  *)
(* stored without counters.  This specification starts from such a store:  *)
(* the project LegacyProject without scenario, holding manuscript blocks.  *)
(***************************************************************************)

LegacyBlocks ==
    {[id |-> BlockId(0, i), project_id |-> LegacyProject.id, title |-> "t",
      content |-> "a b", ordering |-> i,
      char_count |-> CharCount("a b"), word_count |-> BlockWordCount("a b")] : i \in 0..1}

InitLegacyManuscript ==
    /\ projects = {LegacyProject}
    /\ groups = {[id |-> "group-uncategorized-0", project_id |-> LegacyProject.id,
                  name |-> UNCATEGORIZED]}
    /\ worldviews = {[project_id |-> LegacyProject.id,
                      content |-> DefaultWorldviewContent]}
    /\ manuscript_blocks = LegacyBlocks
    /\ scenarios = {}
    /\ plot_points = {}
    /\ cards = {}
    /\ worldview_groups = {}
    /\ worldview_cards = {}
    /\ relationships = {}
    /\ relationship_phases = {}
    /\ foreign_keys \in BOOLEAN
    /\ in_flight = {}
    /\ clock = 0
    /\ last = Response("start", 200, "", None, "", <<>>)

NextLegacyImport ==
    \/ create_project(None)
    \/ \E p \in IdInputs(projects) : get_project_details(p, None)
    \/ \E sc \in scenarios :
          \E ai \in {r \in AIResults : r.kind = "json" /\ Len(r.plot_points) = 2
                                         /\ \A pp \in Range(r.plot_points) : pp.title # None} :
             generate_scenario_draft_with_ai(sc.project_id, sc.id, ai, None)
    \/ \E p \in IdInputs(projects) : import_plot_points_to_manuscript(p, None)
    \/ \E p \in Ids(projects), b \in Ids(manuscript_blocks), split_position \in {0, 1} :
          split_manuscript_block(p, b, split_position, None)
    \/ \E p \in Ids(projects), b \in IdInputs(manuscript_blocks) :
          delete_manuscript_block(p, b, None)

SpecLegacyImport == InitLegacyManuscript /\ [][NextLegacyImport]_vars

\* C30: while a project has no scenario, import_plot_points_to_manuscript
\* on it fails with 404 and the blocks stored before the request are all
\* still stored, unchanged: the deletion the handler runs before it looks
\* for the scenario is never committed.
C30_ImportWithoutScenario ==
    [][\A p \in Ids(projects) :
          (import_plot_points_to_manuscript(p, None) /\ ScenariosOf(p) = {})
             => last'.status = 404 /\ manuscript_blocks' = manuscript_blocks]_vars

C30_Witness ==
    /\ last.op = "import_plot_points_to_manuscript"
    /\ last.status = 404
    /\ ScenariosOf(last.project_id) = {}
    /\ Cardinality(BlocksOfProject(last.project_id)) = 2

====
